---- MODULE Spec2Model ----
(***************************************************************************)
(* The formula formatter: tokenizer (tokens.ts), recursive-descent parser  *)
(* (parse.ts), document builder (formatNode.ts) and renderer (format.ts),  *)
(* driven by the editor page (page.tsx).                                   *)
(*                                                                         *)
(* A JavaScript string is modelled as a sequence of one-character strings, *)
(* positions are zero-indexed as in the source.                            *)
(***************************************************************************)
EXTENDS Integers, Sequences, FiniteSets, TLC

\* ------------------------------------------------------------ characters

SPACE == " "
SINGLE_QUOTE == "'"
DOUBLE_QUOTE == "\""

Digits == {"0", "1", "2", "3", "4", "5", "6", "7", "8", "9"}

LowerLetters ==
  <<"a", "b", "c", "d", "e", "f", "g", "h", "i", "j", "k", "l", "m",
    "n", "o", "p", "q", "r", "s", "t", "u", "v", "w", "x", "y", "z">>

UpperLetters ==
  <<"A", "B", "C", "D", "E", "F", "G", "H", "I", "J", "K", "L", "M",
    "N", "O", "P", "Q", "R", "S", "T", "U", "V", "W", "X", "Y", "Z">>

Range(s) == {s[i] : i \in DOMAIN s}

Letters == Range(LowerLetters) \cup Range(UpperLetters)

Symbols ==
  {"+", "-", "*", "/", "^", "&", "=", "<", ">", ",", ";", "(", ")", "{", "}",
   "\"", "'", " ", "\t", "#", "$", ":", "!", ".", "_"}

\* Every character a line of the model can hold (what `.` matches).
AllChars == Digits \cup Letters \cup Symbols

\* String.prototype.toLowerCase, one character.
lowerChar(c) ==
  IF \E i \in DOMAIN UpperLetters : UpperLetters[i] = c
    THEN LowerLetters[CHOOSE i \in DOMAIN UpperLetters : UpperLetters[i] = c]
    ELSE c

toLowerCase(s) == [i \in DOMAIN s |-> lowerChar(s[i])]

endsWith(s, suffix) ==
  /\ Len(s) >= Len(suffix)
  /\ SubSeq(s, Len(s) - Len(suffix) + 1, Len(s)) = suffix

\* ------------------------------------------------- regular expressions
\* A pattern maps the set P of offsets reached so far to the set of offsets
\* reached after it; a regex anchored with ^...$ matches s iff Len(s) is
\* reached from {0}.

\* One character of class C.
Chr(C, s, P) == {p + 1 : p \in {q \in P : q < Len(s) /\ s[q + 1] \in C}}

\* C{0,n}
StarMax(C, s, P, n) ==
  {q \in 0..Len(s) :
     \E p \in P : p <= q /\ q - p <= n /\ \A i \in (p + 1)..q : s[i] \in C}

\* C*
Star(C, s, P) == StarMax(C, s, P, Len(s))

\* C+
Plus(C, s, P) == Star(C, s, Chr(C, s, P))

WordChars == Letters \cup Digits \cup {"_"}

\* /^-?(\d+(\.\d*)?|\.\d+)(e\d+)?$/i
NUMBER_LITERAL_RE(s) ==
  LET p1 == {0} \cup Chr({"-"}, s, {0})
      a1 == Plus(Digits, s, p1)
      a2 == a1 \cup Star(Digits, s, Chr({"."}, s, a1))
      b1 == Plus(Digits, s, Chr({"."}, s, p1))
      m  == a2 \cup b1
      e  == m \cup Plus(Digits, s, Chr({"e", "E"}, s, m))
  IN  Len(s) \in e

\* /^[a-z_][a-z0-9_]*$/i
IDENTIFIER_LITERAL_RE(s) ==
  Len(s) \in Star(WordChars, s, Chr(Letters \cup {"_"}, s, {0}))

\* /([a-z0-9_]+|'.+')!/
sheetNamePattern(s, P) ==
  Chr({"!"}, s,
      Plus(WordChars, s, P)
        \cup Chr({SINGLE_QUOTE}, s, Plus(AllChars, s, Chr({SINGLE_QUOTE}, s, P))))

\* /\$?[a-z]+/
cellColPattern(s, P) == Plus(Letters, s, P \cup Chr({"$"}, s, P))

\* /\$?0*[1-9]\d*/
cellRowPattern(s, P) ==
  Star(Digits, s,
       Chr(Digits \ {"0"}, s, Star({"0"}, s, P \cup Chr({"$"}, s, P))))

cellRefPattern(s, P) == cellRowPattern(s, cellColPattern(s, P))

openColPattern(s, P) ==
  LET c == cellColPattern(s, P) IN c \cup cellRowPattern(s, c)

openRowPattern(s, P) == cellRowPattern(s, P \cup cellColPattern(s, P))

rangeRefRe(s) ==
  LET p0 == {0} \cup sheetNamePattern(s, {0})
  IN  Len(s) \in
        (cellRefPattern(s, p0)
           \cup openColPattern(s, Chr({":"}, s, openColPattern(s, p0)))
           \cup openRowPattern(s, Chr({":"}, s, openRowPattern(s, p0))))

\* {0,249} in the named-range pattern.
NamedRangeTail == 249

namedRangeRe(s) ==
  Len(s) \in
    StarMax(WordChars, s,
            Chr(Letters \cup {"_"}, s, sheetNamePattern(s, {0})),
            NamedRangeTail)

RANGE_REF_RE(s) ==
  IF rangeRefRe(s) THEN TRUE
  ELSE IF namedRangeRe(s)
    THEN ~(\/ endsWith(s, <<"!", "t", "r", "u", "e">>)
           \/ endsWith(s, <<"!", "f", "a", "l", "s", "e">>))
    ELSE FALSE

LITERALS ==
  {<<"t", "r", "u", "e">>, <<"f", "a", "l", "s", "e">>, <<"#", "n", "/", "a">>}

\* ---------------------------------------------------------- tokenizer

\* TokenType (the enum's string values).
UNARY_OPERATORS == {"plus", "minus"}

OPERATORS ==
  UNARY_OPERATORS \cup
    {"multiply", "divide", "xor", "concat", "equal", "not_equal", "less",
     "greater", "less_or_equal", "greater_or_equal"}

OPERATORS_SINGLE(c) ==
  CASE c = "+" -> "plus"
    [] c = "-" -> "minus"
    [] c = "*" -> "multiply"
    [] c = "/" -> "divide"
    [] c = "^" -> "xor"
    [] c = "&" -> "concat"
    [] c = "=" -> "equal"
    [] c = "<" -> "less"
    [] c = ">" -> "greater"
    [] OTHER -> "undefined"

OPERATORS_DOUBLE(cc) ==
  CASE cc = <<"<", ">">> -> "not_equal"
    [] cc = <<"<", "=">> -> "less_or_equal"
    [] cc = <<">", "=">> -> "greater_or_equal"
    [] OTHER -> "undefined"

PUNCTUATION(c) ==
  CASE c = "," -> "comma"
    [] c = ";" -> "semicolon"
    [] c = "(" -> "left_paren"
    [] c = ")" -> "right_paren"
    [] c = "{" -> "left_bracket"
    [] c = "}" -> "right_bracket"
    [] OTHER -> "undefined"

\* The error type a tokenizer message stands for (TokenErrorType of tokens.ts).
TokenErrorType(message) ==
  CASE message = "Parse error: unknown token" -> "UNKNOWN_TOKEN"
    [] message = "Unclosed string" -> "UNCLOSED_STRING"
    [] message = "Unclosed quotes" -> "UNCLOSED_QUOTES"

createToken(type, content, lineNum, endCol) ==
  [type |-> type,
   content |-> content,
   startPosition |-> [lineNum |-> lineNum, colNum |-> endCol - Len(content) + 1],
   endPosition |-> [lineNum |-> lineNum, colNum |-> endCol],
   errorType |-> "undefined"]

createError(message, content, lineNum, endCol) ==
  [createToken("parse_error", content, lineNum, endCol)
     EXCEPT !.errorType = TokenErrorType(message)]

\* The classification of a flushed buffer; "undefined" is the unknown token.
classify(content) ==
  IF toLowerCase(content) \in LITERALS THEN "literal"
  ELSE IF NUMBER_LITERAL_RE(content) THEN "number"
  ELSE IF RANGE_REF_RE(content) THEN "range"
  ELSE IF IDENTIFIER_LITERAL_RE(content) THEN "identifier"
  ELSE "undefined"

\* pushBuffer: the token list after flushing `buffer` (the caller's buffer is
\* emptied by clearArray in every case).
\* Faulty variant of pushBuffer: the #n/a special case does not look at the
\* position of the earlier token.
pushBufferAnywhere(tokens, buffer, lineNum, colNum) ==
  IF Len(buffer) = 0 THEN tokens
  ELSE
    LET n == Len(tokens)
        coalesce ==
          /\ n >= 2
          /\ toLowerCase(buffer) = <<"a">>
          /\ toLowerCase(tokens[n - 1].content) = <<"#", "n">>
          /\ tokens[n].content = <<"/">>
        kept == IF coalesce THEN SubSeq(tokens, 1, n - 2) ELSE tokens
        content ==
          IF coalesce
            THEN tokens[n - 1].content \o tokens[n].content \o buffer
            ELSE buffer
        tokenType == classify(content)
    IN  IF tokenType = "undefined"
          THEN Append(kept,
                      createError("Parse error: unknown token", content,
                                  lineNum, colNum - 1))
          ELSE Append(kept, createToken(tokenType, content, lineNum, colNum - 1))

pushBuffer(tokens, buffer, lineNum, colNum) ==
  IF Len(buffer) = 0 THEN tokens
  ELSE
    LET n == Len(tokens)
        coalesce ==
          /\ n >= 2
          /\ toLowerCase(buffer) = <<"a">>
          /\ tokens[n - 1].startPosition.lineNum = lineNum
          /\ tokens[n - 1].startPosition.colNum = colNum - 4
          /\ toLowerCase(tokens[n - 1].content) = <<"#", "n">>
          /\ tokens[n].content = <<"/">>
        kept == IF coalesce THEN SubSeq(tokens, 1, n - 2) ELSE tokens
        content ==
          IF coalesce
            THEN tokens[n - 1].content \o tokens[n].content \o buffer
            ELSE buffer
        tokenType == classify(content)
    IN  IF tokenType = "undefined"
          THEN Append(kept,
                      createError("Parse error: unknown token", content,
                                  lineNum, colNum - 1))
          ELSE Append(kept, createToken(tokenType, content, lineNum, colNum - 1))

\* The operator or punctuation matched at a column: <<text, type>>, or <<>>.
matchSymbol(c, cc) ==
  IF OPERATORS_DOUBLE(cc) # "undefined" THEN <<cc, OPERATORS_DOUBLE(cc)>>
  ELSE IF OPERATORS_SINGLE(c) # "undefined" THEN <<(<<c>>), OPERATORS_SINGLE(c)>>
  ELSE IF PUNCTUATION(c) # "undefined" THEN <<(<<c>>), PUNCTUATION(c)>>
  ELSE <<>>

\* One iteration of the column loop of parseTokens; st holds the token list,
\* the buffer, the two modes and the column the iteration starts at.
scanChar(line, lineNum, st) ==
  LET colNum == st.colNum
      c == line[colNum + 1]
      cc == IF colNum < Len(line) - 1
              THEN <<line[colNum + 1], line[colNum + 2]>>
              ELSE <<>>
      m == matchSymbol(c, cc)
  IN  IF st.inString THEN
        IF c = DOUBLE_QUOTE THEN
          IF cc = <<DOUBLE_QUOTE, DOUBLE_QUOTE>>
            THEN [st EXCEPT !.buffer = @ \o cc, !.colNum = colNum + 2]
            ELSE [st EXCEPT
                    !.inString = FALSE,
                    !.tokens = Append(@, createToken("string",
                                                     Append(st.buffer, c),
                                                     lineNum, colNum)),
                    !.buffer = <<>>,
                    !.colNum = colNum + 1]
        ELSE [st EXCEPT !.buffer = Append(@, c), !.colNum = colNum + 1]
      ELSE IF st.inQuotes THEN
        IF c = SINGLE_QUOTE /\ cc = <<SINGLE_QUOTE, SINGLE_QUOTE>>
          THEN [st EXCEPT !.buffer = @ \o cc, !.colNum = colNum + 2]
          ELSE [st EXCEPT
                  !.inQuotes = IF c = SINGLE_QUOTE THEN FALSE ELSE @,
                  !.buffer = Append(@, c),
                  !.colNum = colNum + 1]
      ELSE IF c = SPACE THEN
        [st EXCEPT !.tokens = pushBuffer(@, st.buffer, lineNum, colNum),
                   !.buffer = <<>>,
                   !.colNum = colNum + 1]
      ELSE IF m # <<>> THEN
        [st EXCEPT
           !.tokens = Append(pushBuffer(@, st.buffer, lineNum, colNum),
                             createToken(m[2], m[1], lineNum,
                                         colNum + Len(m[1]) - 1)),
           !.buffer = <<>>,
           !.colNum = colNum + Len(m[1])]
      ELSE IF c = DOUBLE_QUOTE THEN
        [st EXCEPT !.tokens = pushBuffer(@, st.buffer, lineNum, colNum),
                   !.inString = TRUE,
                   !.buffer = <<c>>,
                   !.colNum = colNum + 1]
      ELSE IF c = SINGLE_QUOTE THEN
        [st EXCEPT !.tokens = pushBuffer(@, st.buffer, lineNum, colNum),
                   !.inQuotes = TRUE,
                   !.buffer = <<c>>,
                   !.colNum = colNum + 1]
      ELSE [st EXCEPT !.buffer = Append(@, c), !.colNum = colNum + 1]

RECURSIVE scanLine(_, _, _)
scanLine(line, lineNum, st) ==
  IF st.colNum >= Len(line) THEN st
  ELSE scanLine(line, lineNum, scanChar(line, lineNum, st))

\* Faulty variant of tokenizeLine: text left in an open string or quoted
\* name at the end of the line is flushed like any other buffer.
tokenizeLineFlushOpen(tokens, line, lineNum) ==
  LET endOfLine(st) == pushBuffer(st.tokens, st.buffer, lineNum, Len(line))
  IN  endOfLine(scanLine(line, lineNum,
                         [tokens |-> tokens, buffer |-> <<>>,
                          inString |-> FALSE, inQuotes |-> FALSE,
                          colNum |-> 0]))

\* The body of the line loop: the token list after line lineNum.
tokenizeLine(tokens, line, lineNum) ==
  LET endOfLine(st) ==
        IF st.inString \/ st.inQuotes
          THEN Append(st.tokens,
                      createError(IF st.inString THEN "Unclosed string"
                                                 ELSE "Unclosed quotes",
                                  st.buffer, lineNum, Len(line) - 1))
          ELSE pushBuffer(st.tokens, st.buffer, lineNum, Len(line))
  IN  endOfLine(scanLine(line, lineNum,
                         [tokens |-> tokens, buffer |-> <<>>,
                          inString |-> FALSE, inQuotes |-> FALSE,
                          colNum |-> 0]))

cmpPositions(p1, p2) ==
  IF p1.lineNum - p2.lineNum # 0
    THEN p1.lineNum - p2.lineNum
    ELSE p1.colNum - p2.colNum

\* Array.prototype.sort with sortByPositions(startPosition): a stable sort.
RECURSIVE insertSorted(_, _)
insertSorted(sorted, token) ==
  IF sorted = <<>> THEN <<token>>
  ELSE IF cmpPositions(sorted[Len(sorted)].startPosition,
                       token.startPosition) <= 0
    THEN Append(sorted, token)
    ELSE Append(insertSorted(SubSeq(sorted, 1, Len(sorted) - 1), token),
                sorted[Len(sorted)])

RECURSIVE sortByPositions(_)
sortByPositions(tokens) ==
  IF tokens = <<>> THEN <<>>
  ELSE insertSorted(sortByPositions(SubSeq(tokens, 1, Len(tokens) - 1)),
                    tokens[Len(tokens)])

RECURSIVE tokenizeLines(_, _, _)
tokenizeLines(tokens, lines, lineNum) ==
  IF lineNum >= Len(lines) THEN tokens
  ELSE tokenizeLines(tokenizeLine(tokens, lines[lineNum + 1], lineNum),
                     lines, lineNum + 1)

parseTokens(lines) == sortByPositions(tokenizeLines(<<>>, lines, 0))

\* ------------------------------------------------------------- parser
\* The parser works on the token array by index; a tree node holds the index
\* of each token it refers to (the objects it shares with the array). Every
\* production returns the token array with the annotations written so far.

\* An elided expression (null).
NULL == [null |-> TRUE]

\* "No match at this position."
noMatch(tokens) == [ok |-> FALSE, end |-> 0, node |-> NULL, tokens |-> tokens]

match(end, node, tokens) ==
  [ok |-> TRUE, end |-> end, node |-> node, tokens |-> tokens]

\* Faulty variant of setErrorTypeIfNull: the annotated token also becomes an
\* ERROR token.
setErrorTypeAndTokenType(tokens, index, errorType) ==
  IF tokens[index + 1].errorType = "undefined"
    THEN [tokens EXCEPT ![index + 1].errorType = errorType,
                        ![index + 1].type = "parse_error"]
    ELSE tokens

\* Faulty variant of setErrorTypeIfNull: the annotation is never written.
setErrorTypeNever(tokens, index, errorType) == tokens

\* Faulty variant of setErrorTypeIfNull: a later annotation replaces an
\* earlier one.
setErrorTypeAlways(tokens, index, errorType) ==
  [tokens EXCEPT ![index + 1].errorType = errorType]

setErrorTypeIfNull(tokens, index, errorType) ==
  IF tokens[index + 1].errorType = "undefined"
    THEN [tokens EXCEPT ![index + 1].errorType = errorType]
    ELSE tokens

LiteralTokenTypes ==
  {"identifier", "number", "string", "range", "literal", "parse_error"}

\* The terms a unary operator may be applied to.
\* Faulty variant of validUnaryOperand: every term is accepted as operand.
validUnaryOperandAny(tokens, operand) == TRUE

validUnaryOperand(tokens, operand) ==
  \/ /\ operand.type = "LITERAL"
     /\ tokens[operand.literal + 1].type
          \in {"literal", "identifier", "number", "range"}
  \/ operand.type \in {"CALL", "PARENTHESIZED"}

RECURSIVE parseExpression(_, _)
RECURSIVE parseOperations(_, _, _, _)
RECURSIVE parseExpressionList(_, _)
RECURSIVE parseCommas(_, _, _, _)
RECURSIVE parseRows(_, _, _, _)
RECURSIVE parseTerm(_, _)

parseExpressionOrEmpty(tokens, index) ==
  LET orEmpty(result) ==
        IF ~result.ok THEN match(index, NULL, result.tokens) ELSE result
  IN  orEmpty(parseExpression(tokens, index))

\* Faulty variant of the loop of parseExpression: an operator whose term
\* fails to parse is consumed as part of the expression.
RECURSIVE parseOperationsDangling(_, _, _, _)
parseOperationsDangling(tokens, endIndex, terms, operatorTokens) ==
  LET done == match(endIndex,
                    [terms |-> terms, operatorTokens |-> operatorTokens],
                    tokens)
  IN  IF endIndex >= Len(tokens) THEN done
      ELSE IF tokens[endIndex + 1].type \notin OPERATORS THEN done
      ELSE
        LET afterOperator(nextTerm) ==
              IF ~nextTerm.ok
                THEN match(endIndex + 1,
                           [terms |-> terms,
                            operatorTokens |->
                              Append(operatorTokens, endIndex)],
                           nextTerm.tokens)
                ELSE parseOperationsDangling(nextTerm.tokens, nextTerm.end,
                                             Append(terms, nextTerm.node),
                                             Append(operatorTokens, endIndex))
        IN  afterOperator(parseTerm(tokens, endIndex + 1))

\* The while loop of parseExpression.
parseOperations(tokens, endIndex, terms, operatorTokens) ==
  LET done == match(endIndex,
                    [terms |-> terms, operatorTokens |-> operatorTokens],
                    tokens)
  IN  IF endIndex >= Len(tokens) THEN done
      ELSE IF tokens[endIndex + 1].type \notin OPERATORS THEN done
      ELSE
        LET afterOperator(nextTerm) ==
              IF ~nextTerm.ok
                THEN [done EXCEPT !.tokens = nextTerm.tokens]
                ELSE parseOperations(nextTerm.tokens, nextTerm.end,
                                     Append(terms, nextTerm.node),
                                     Append(operatorTokens, endIndex))
        IN  afterOperator(parseTerm(tokens, endIndex + 1))

parseExpression(tokens, index) ==
  IF index >= Len(tokens) THEN noMatch(tokens)
  ELSE
    LET afterTerm(result) ==
          IF ~result.ok THEN noMatch(result.tokens)
          ELSE parseOperations(result.tokens, result.end, <<result.node>>, <<>>)
    IN  afterTerm(parseTerm(tokens, index))

\* Faulty variant of the loop of parseExpressionList: the comma tokens are
\* not recorded.
RECURSIVE parseCommasUnrecorded(_, _, _, _)
parseCommasUnrecorded(tokens, endIndex, expressions, commaTokens) ==
  IF endIndex < Len(tokens) /\ tokens[endIndex + 1].type = "comma"
    THEN LET afterComma(next) ==
               parseCommasUnrecorded(next.tokens, next.end,
                                     Append(expressions, next.node),
                                     commaTokens)
         IN  afterComma(parseExpressionOrEmpty(tokens, endIndex + 1))
    ELSE match(endIndex,
               [expressions |-> expressions, commaTokens |-> commaTokens],
               tokens)

\* The while loop of parseExpressionList.
parseCommas(tokens, endIndex, expressions, commaTokens) ==
  IF endIndex < Len(tokens) /\ tokens[endIndex + 1].type = "comma"
    THEN LET afterComma(next) ==
               parseCommas(next.tokens, next.end,
                           Append(expressions, next.node),
                           Append(commaTokens, endIndex))
         IN  afterComma(parseExpressionOrEmpty(tokens, endIndex + 1))
    ELSE match(endIndex,
               [expressions |-> expressions, commaTokens |-> commaTokens],
               tokens)

\* Faulty variant of parseExpressionList: a list with no expressions keeps
\* the single null it was started with.
parseExpressionListKeepNull(tokens, index) ==
  LET commas(initial) ==
        parseCommas(initial.tokens, initial.end, <<initial.node>>, <<>>)
  IN  commas(parseExpressionOrEmpty(tokens, index))

parseExpressionList(tokens, index) ==
  LET commas(initial) ==
        parseCommas(initial.tokens, initial.end, <<initial.node>>, <<>>)
      clearEmpty(list) ==
        IF /\ Len(list.node.expressions) = 1
           /\ Len(list.node.commaTokens) = 0
           /\ list.node.expressions[1] = NULL
          THEN [list EXCEPT !.node.expressions = <<>>]
          ELSE list
  IN  clearEmpty(commas(parseExpressionOrEmpty(tokens, index)))

\* The while loop of the array-literal branch of parseTerm; the node holds
\* rows, semicolonTokens and the rightBracketToken when the loop found it.
parseRows(tokens, endIndex, rows, semicolonTokens) ==
  LET stop(right, end) ==
        match(end,
              [rows |-> rows, semicolonTokens |-> semicolonTokens,
               rightBracketToken |-> right],
              tokens)
  IN  IF endIndex >= Len(tokens) THEN stop(<<>>, endIndex)
      ELSE IF tokens[endIndex + 1].type = "right_bracket"
        THEN stop(<<endIndex>>, endIndex + 1)
      ELSE IF tokens[endIndex + 1].type # "semicolon" THEN stop(<<>>, endIndex)
      ELSE
        LET afterSemicolon(next) ==
              parseRows(next.tokens, next.end, Append(rows, next.node),
                        Append(semicolonTokens, endIndex))
        IN  afterSemicolon(parseExpressionList(tokens, endIndex + 1))

\* parseTerm, array-literal branch.
parseArrayLiteral(tokens, start) ==
  LET rowsLoop(initial) ==
        parseRows(initial.tokens, initial.end, <<initial.node>>, <<>>)
      arrayTerm(loop) ==
        match(loop.end,
              [type |-> "ARRAY_LITERAL",
               arrayLiteral |->
                 [leftBracketToken |-> start,
                  rows |->
                    IF /\ Len(loop.node.rows) = 1
                       /\ Len(loop.node.semicolonTokens) = 0
                       /\ Len(loop.node.rows[1].expressions) = 0
                      THEN <<>>
                      ELSE loop.node.rows,
                  semicolonTokens |-> loop.node.semicolonTokens,
                  rightBracketToken |-> loop.node.rightBracketToken]],
              IF loop.node.rightBracketToken = <<>>
                THEN setErrorTypeIfNull(loop.tokens, start, "UNCLOSED_ARRAY")
                ELSE loop.tokens)
  IN  arrayTerm(rowsLoop(parseExpressionList(tokens, start + 1)))

\* parseTerm, function-call branch.
parseCall(tokens, start) ==
  LET callTerm(list, closed) ==
        match(IF closed THEN list.end + 1 ELSE list.end,
              [type |-> "CALL",
               call |->
                 [functionToken |-> start,
                  leftParenToken |-> start + 1,
                  args |-> list.node,
                  rightParenToken |-> IF closed THEN <<list.end>> ELSE <<>>]],
              IF closed
                THEN list.tokens
                ELSE setErrorTypeIfNull(list.tokens, start + 1,
                                        "UNCLOSED_FUNCTION_CALL"))
      afterArgs(list) ==
        callTerm(list,
                 /\ list.end < Len(list.tokens)
                 /\ list.tokens[list.end + 1].type = "right_paren")
  IN  afterArgs(parseExpressionList(tokens, start + 2))

\* parseTerm, parenthesized branch, once the inner expression has matched.
parseParenthesized(start, result) ==
  LET closed ==
        /\ result.end < Len(result.tokens)
        /\ result.tokens[result.end + 1].type = "right_paren"
      term ==
        [type |-> "PARENTHESIZED",
         parenthesized |->
           [leftParenToken |-> start,
            expression |-> result.node,
            rightParenToken |-> IF closed THEN <<result.end>> ELSE <<>>]]
  IN  IF closed
        THEN match(result.end + 1, term, result.tokens)
        ELSE match(result.end, term,
                   setErrorTypeIfNull(result.tokens, start,
                                      "UNCLOSED_PARENTHESES"))

\* Faulty variant of parseLiteral: the literal's token is not consumed.
parseLiteralNoAdvance(tokens, start) ==
  match(start, [type |-> "LITERAL", literal |-> start], tokens)

\* parseTerm, literal branch.
parseLiteral(tokens, start) ==
  match(start + 1, [type |-> "LITERAL", literal |-> start], tokens)

\* Faulty variant of parseUnaryOp: a rejected operator is not annotated.
parseUnaryOpUnmarked(tokens, start) ==
  LET afterOperand(operandTerm) ==
        IF ~operandTerm.ok THEN noMatch(operandTerm.tokens)
        ELSE IF validUnaryOperand(operandTerm.tokens, operandTerm.node)
          THEN match(operandTerm.end,
                     [type |-> "UNARY_OP",
                      unaryOp |-> [operatorToken |-> start,
                                   operand |-> operandTerm.node]],
                     operandTerm.tokens)
        ELSE noMatch(operandTerm.tokens)
  IN  afterOperand(parseTerm(tokens, start + 1))

\* parseTerm, unary-operator branch.
parseUnaryOp(tokens, start) ==
  LET afterOperand(operandTerm) ==
        IF ~operandTerm.ok THEN noMatch(operandTerm.tokens)
        ELSE IF validUnaryOperand(operandTerm.tokens, operandTerm.node)
          THEN match(operandTerm.end,
                     [type |-> "UNARY_OP",
                      unaryOp |-> [operatorToken |-> start,
                                   operand |-> operandTerm.node]],
                     operandTerm.tokens)
        ELSE noMatch(setErrorTypeIfNull(operandTerm.tokens, start,
                                        "INVALID_UNARY_OPERAND"))
  IN  afterOperand(parseTerm(tokens, start + 1))

parseTerm(tokens, start) ==
  IF start >= Len(tokens) THEN noMatch(tokens)
  ELSE
    LET startToken == tokens[start + 1]
    IN  IF startToken.type = "left_bracket"
          THEN parseArrayLiteral(tokens, start)
        ELSE IF /\ startToken.type = "identifier"
                /\ start < Len(tokens) - 1
                /\ tokens[start + 2].type = "left_paren"
          THEN parseCall(tokens, start)
        ELSE
          LET afterParen(inner) ==
                IF inner.ok THEN parseParenthesized(start, inner)
                ELSE IF startToken.type \in LiteralTokenTypes
                  THEN parseLiteral(inner.tokens, start)
                ELSE IF /\ startToken.type \in UNARY_OPERATORS
                        /\ start < Len(tokens) - 1
                  THEN parseUnaryOp(inner.tokens, start)
                ELSE noMatch(inner.tokens)
          IN  afterParen(IF startToken.type = "left_paren"
                           THEN parseExpression(tokens, start + 1)
                           ELSE noMatch(tokens))

\* Faulty variant of isErrorToken: annotated tokens are not errors.
isErrorTokenTypeOnly(token) == token.type = "parse_error"

isErrorToken(token) ==
  token.type = "parse_error" \/ token.errorType # "undefined"

\* Faulty variant of isUnrecoverable: an unclosed quoted name is recoverable.
isUnrecoverableStringOnly(token) == token.errorType = "UNCLOSED_STRING"

\* The errors that are unrecoverable in terms of formatting.
isUnrecoverable(token) ==
  token.errorType \in {"UNCLOSED_STRING", "UNCLOSED_QUOTES"}

\* Faulty variant of allConsumed: tokens left over are not looked at.
allConsumedAlways(endIndex, tokens) == TRUE

\* Faulty variant of allConsumed: one token may remain.
allConsumedButOne(endIndex, tokens) == endIndex >= Len(tokens) - 1

\* The initial value of canFormatExpression.
allConsumed(endIndex, tokens) == endIndex >= Len(tokens)

\* The for loop of parseLines over the tokens, from token i on: acc holds
\* errors (token indices) and canFormatExpression.
RECURSIVE collectErrors(_, _, _)
collectErrors(tokens, i, acc) ==
  IF i >= Len(tokens) THEN acc
  ELSE
    LET token == tokens[i + 1]
    IN  IF isErrorToken(token)
          THEN collectErrors(tokens, i + 1,
                 [errors |-> Append(acc.errors, i),
                  canFormatExpression |->
                    IF isUnrecoverable(token)
                      THEN FALSE
                      ELSE acc.canFormatExpression])
          ELSE collectErrors(tokens, i + 1, acc)

\* parseLines on an already tokenized input.
parseTokenArray(tokenArray) ==
  LET result(expression, tokens, acc) ==
        [tokens |-> tokens,
         hasError |-> Len(acc.errors) > 0,
         errors |-> acc.errors,
         canFormatExpression |-> acc.canFormatExpression,
         expression |-> expression]
      errorLoop(expression, endIndex, tokens) ==
        result(expression, tokens,
               collectErrors(tokens, 0,
                             [errors |-> <<>>,
                              canFormatExpression |->
                                allConsumed(endIndex, tokens)]))
      afterFormula(formula) ==
        errorLoop(formula.node, formula.end,
                  IF formula.end < Len(formula.tokens)
                    THEN setErrorTypeIfNull(formula.tokens, formula.end,
                                            "UNEXPECTED_TOKEN")
                    ELSE formula.tokens)
  IN  afterFormula(parseExpressionOrEmpty(tokenArray, 0))

parseLines(lines) == parseTokenArray(parseTokens(lines))

\* ------------------------------------------- the parser, call by call
\*
\* One run of the parser over a token array it shares with other runs: the
\* pending calls are the frames of run.stack, the innermost first. A frame
\* holds the function, the place in its body (pc) and its locals: i is the
\* index argument, end is endIndex, a and b are the two arrays the function
\* fills (terms and operatorTokens, expressions and commaTokens, rows and
\* semicolonTokens), right is the closing token found, node the term to
\* return and err the errorType argument of setErrorTypeIfNull. run.ret is
\* the value the last call returned.

frameOf(fn, i) ==
  [fn |-> fn, pc |-> "start", i |-> i, end |-> 0, a |-> <<>>, b |-> <<>>,
   right |-> <<>>, node |-> NULL, err |-> "undefined"]

errorFrame(i, errorType) ==
  [frameOf("setErrorTypeIfNull", i) EXCEPT !.err = errorType]

returned(end, node) == [ok |-> TRUE, end |-> end, node |-> node]

returnedNull == [ok |-> FALSE, end |-> 0, node |-> NULL]

\* A run about to call parseLines' parser part on the shared token array.
startOfRun ==
  [stack |-> <<frameOf("parseLines", 0)>>,
   ret |-> returnedNull,
   expression |-> NULL,
   errors |-> <<>>,
   canFormatExpression |-> FALSE,
   done |-> FALSE]

\* The innermost call moves on within its body.
goto(run, top) == [run EXCEPT !.stack = <<top>> \o Tail(@)]

\* The innermost call calls another function.
call(run, top, callee) == [run EXCEPT !.stack = <<callee, top>> \o Tail(@)]

\* The innermost call returns.
return(run, ret) == [run EXCEPT !.stack = Tail(@), !.ret = ret]

\* Faulty variant of stepSetErrorTypeIfNull: the assignment is made without
\* the test.
stepSetErrorTypeUntested(shared, run, top) ==
  [shared |-> [shared EXCEPT ![top.i + 1].errorType = top.err],
   run |-> return(run, run.ret)]

\* setErrorTypeIfNull: the test reads the token's errorType, the assignment
\* writes it; the two are separate steps.
stepSetErrorTypeIfNull(shared, run, top) ==
  IF top.pc = "start"
    THEN [shared |-> shared,
          run |-> IF shared[top.i + 1].errorType = "undefined"
                    THEN goto(run, [top EXCEPT !.pc = "write"])
                    ELSE return(run, run.ret)]
    ELSE [shared |-> [shared EXCEPT ![top.i + 1].errorType = top.err],
          run |-> return(run, run.ret)]

\* parseLines after the tokenizer: the formula, the unexpected-token
\* annotation, and the loop over the tokens, one token a step.
stepParseLines(shared, run, top) ==
  CASE top.pc = "start" ->
         call(run, [top EXCEPT !.pc = "formula"],
              frameOf("parseExpressionOrEmpty", 0))
    [] top.pc = "formula" ->
         IF run.ret.end < Len(shared)
           THEN call([run EXCEPT !.expression = run.ret.node],
                     [top EXCEPT !.end = run.ret.end, !.pc = "canFormat"],
                     errorFrame(run.ret.end, "UNEXPECTED_TOKEN"))
           ELSE goto([run EXCEPT !.expression = run.ret.node],
                     [top EXCEPT !.end = run.ret.end, !.pc = "canFormat"])
    [] top.pc = "canFormat" ->
         goto([run EXCEPT !.canFormatExpression = allConsumed(top.end, shared)],
              [top EXCEPT !.i = 0, !.pc = "errors"])
    [] top.pc = "errors" ->
         IF top.i >= Len(shared)
           THEN [run EXCEPT !.stack = <<>>, !.done = TRUE]
           ELSE goto(
                  IF isErrorToken(shared[top.i + 1])
                    THEN [run EXCEPT
                            !.errors = Append(@, top.i),
                            !.canFormatExpression =
                              IF isUnrecoverable(shared[top.i + 1])
                                THEN FALSE
                                ELSE @]
                    ELSE run,
                  [top EXCEPT !.i = @ + 1])

stepParseExpressionOrEmpty(shared, run, top) ==
  IF top.pc = "start"
    THEN call(run, [top EXCEPT !.pc = "result"],
              frameOf("parseExpression", top.i))
    ELSE return(run, IF run.ret.ok THEN run.ret ELSE returned(top.i, NULL))

stepParseExpression(shared, run, top) ==
  LET expression == [terms |-> top.a, operatorTokens |-> top.b]
  IN  CASE top.pc = "start" ->
             IF top.i >= Len(shared) THEN return(run, returnedNull)
             ELSE call(run, [top EXCEPT !.pc = "first"],
                       frameOf("parseTerm", top.i))
        [] top.pc = "first" ->
             IF ~run.ret.ok THEN return(run, returnedNull)
             ELSE goto(run, [top EXCEPT !.end = run.ret.end,
                                        !.a = <<run.ret.node>>,
                                        !.pc = "loop"])
        [] top.pc = "loop" ->
             IF /\ top.end < Len(shared)
                /\ shared[top.end + 1].type \in OPERATORS
               THEN call(run, [top EXCEPT !.pc = "next"],
                         frameOf("parseTerm", top.end + 1))
               ELSE return(run, returned(top.end, expression))
        [] top.pc = "next" ->
             IF ~run.ret.ok THEN return(run, returned(top.end, expression))
             ELSE goto(run, [top EXCEPT !.b = Append(@, top.end),
                                        !.a = Append(@, run.ret.node),
                                        !.end = run.ret.end,
                                        !.pc = "loop"])

stepParseExpressionList(shared, run, top) ==
  CASE top.pc = "start" ->
         call(run, [top EXCEPT !.pc = "first"],
              frameOf("parseExpressionOrEmpty", top.i))
    [] top.pc = "first" ->
         goto(run, [top EXCEPT !.end = run.ret.end,
                               !.a = <<run.ret.node>>,
                               !.pc = "loop"])
    [] top.pc = "loop" ->
         IF top.end < Len(shared) /\ shared[top.end + 1].type = "comma"
           THEN call(run, [top EXCEPT !.b = Append(@, top.end),
                                      !.pc = "next"],
                     frameOf("parseExpressionOrEmpty", top.end + 1))
           ELSE return(run,
                  returned(top.end,
                    [expressions |->
                       IF /\ Len(top.a) = 1
                          /\ Len(top.b) = 0
                          /\ top.a[1] = NULL
                         THEN <<>>
                         ELSE top.a,
                     commaTokens |-> top.b]))
    [] top.pc = "next" ->
         goto(run, [top EXCEPT !.a = Append(@, run.ret.node),
                               !.end = run.ret.end,
                               !.pc = "loop"])

\* parseTerm; the places "rows" to "rowsDone" are the array-literal branch,
\* "args" the call branch, "inner" the parenthesized branch, "literal" the
\* literal test and the unary test after it, "operand" the unary branch.
stepParseTerm(shared, run, top) ==
  LET n == Len(shared)
      closedAt(end, type) == end < n /\ shared[end + 1].type = type
      arrayTerm ==
        [type |-> "ARRAY_LITERAL",
         arrayLiteral |->
           [leftBracketToken |-> top.i,
            rows |-> IF /\ Len(top.a) = 1
                        /\ Len(top.b) = 0
                        /\ Len(top.a[1].expressions) = 0
                       THEN <<>>
                       ELSE top.a,
            semicolonTokens |-> top.b,
            rightBracketToken |-> top.right]]
      callTerm(closed) ==
        [type |-> "CALL",
         call |->
           [functionToken |-> top.i,
            leftParenToken |-> top.i + 1,
            args |-> run.ret.node,
            rightParenToken |-> IF closed THEN <<run.ret.end>> ELSE <<>>]]
      parenTerm(closed) ==
        [type |-> "PARENTHESIZED",
         parenthesized |->
           [leftParenToken |-> top.i,
            expression |-> run.ret.node,
            rightParenToken |-> IF closed THEN <<run.ret.end>> ELSE <<>>]]
      unaryTerm ==
        [type |-> "UNARY_OP",
         unaryOp |-> [operatorToken |-> top.i, operand |-> run.ret.node]]
      unclosed(term, open, errorType) ==
        call(run, [top EXCEPT !.node = term, !.end = run.ret.end,
                              !.pc = "return"],
             errorFrame(open, errorType))
  IN  CASE top.pc = "start" ->
             IF top.i >= n THEN return(run, returnedNull)
             ELSE IF shared[top.i + 1].type = "left_bracket"
               THEN call(run, [top EXCEPT !.pc = "firstRow"],
                         frameOf("parseExpressionList", top.i + 1))
             ELSE IF /\ shared[top.i + 1].type = "identifier"
                     /\ top.i < n - 1
                     /\ shared[top.i + 2].type = "left_paren"
               THEN call(run, [top EXCEPT !.pc = "args"],
                         frameOf("parseExpressionList", top.i + 2))
             ELSE IF shared[top.i + 1].type = "left_paren"
               THEN call(run, [top EXCEPT !.pc = "inner"],
                         frameOf("parseExpression", top.i + 1))
             ELSE goto(run, [top EXCEPT !.pc = "literal"])
        [] top.pc = "firstRow" ->
             goto(run, [top EXCEPT !.end = run.ret.end,
                                   !.a = <<run.ret.node>>,
                                   !.pc = "rows"])
        [] top.pc = "rows" ->
             IF top.end >= n THEN goto(run, [top EXCEPT !.pc = "rowsDone"])
             ELSE IF shared[top.end + 1].type = "right_bracket"
               THEN goto(run, [top EXCEPT !.right = <<top.end>>,
                                          !.end = @ + 1,
                                          !.pc = "rowsDone"])
             ELSE IF shared[top.end + 1].type # "semicolon"
               THEN goto(run, [top EXCEPT !.pc = "rowsDone"])
             ELSE call(run, [top EXCEPT !.b = Append(@, top.end),
                                        !.pc = "nextRow"],
                       frameOf("parseExpressionList", top.end + 1))
        [] top.pc = "nextRow" ->
             goto(run, [top EXCEPT !.a = Append(@, run.ret.node),
                                   !.end = run.ret.end,
                                   !.pc = "rows"])
        [] top.pc = "rowsDone" ->
             IF top.right = <<>>
               THEN call(run, [top EXCEPT !.node = arrayTerm,
                                          !.pc = "return"],
                         errorFrame(top.i, "UNCLOSED_ARRAY"))
               ELSE return(run, returned(top.end, arrayTerm))
        [] top.pc = "args" ->
             IF closedAt(run.ret.end, "right_paren")
               THEN return(run, returned(run.ret.end + 1, callTerm(TRUE)))
               ELSE unclosed(callTerm(FALSE), top.i + 1,
                             "UNCLOSED_FUNCTION_CALL")
        [] top.pc = "inner" ->
             IF ~run.ret.ok THEN goto(run, [top EXCEPT !.pc = "literal"])
             ELSE IF closedAt(run.ret.end, "right_paren")
               THEN return(run, returned(run.ret.end + 1, parenTerm(TRUE)))
             ELSE unclosed(parenTerm(FALSE), top.i, "UNCLOSED_PARENTHESES")
        [] top.pc = "return" -> return(run, returned(top.end, top.node))
        [] top.pc = "literal" ->
             IF shared[top.i + 1].type \in LiteralTokenTypes
               THEN return(run, returned(top.i + 1,
                                  [type |-> "LITERAL", literal |-> top.i]))
             ELSE IF /\ shared[top.i + 1].type \in UNARY_OPERATORS
                     /\ top.i < n - 1
               THEN call(run, [top EXCEPT !.pc = "operand"],
                         frameOf("parseTerm", top.i + 1))
             ELSE return(run, returnedNull)
        [] top.pc = "operand" ->
             IF ~run.ret.ok THEN return(run, returnedNull)
             ELSE IF validUnaryOperand(shared, run.ret.node)
               THEN return(run, returned(run.ret.end, unaryTerm))
             ELSE call(run, [top EXCEPT !.pc = "returnNull"],
                       errorFrame(top.i, "INVALID_UNARY_OPERAND"))
        [] top.pc = "returnNull" -> return(run, returnedNull)

\* The step reads or writes an error annotation of the shared array.
touchesShared(run) ==
  /\ run.stack # <<>>
  /\ \/ Head(run.stack).fn = "setErrorTypeIfNull"
     \/ Head(run.stack).fn = "parseLines" /\ Head(run.stack).pc = "errors"

\* The next step of a run: the run and the shared array after it.
stepOfRun(shared, run) ==
  LET top == Head(run.stack)
      local(next) == [shared |-> shared, run |-> next]
  IN  CASE top.fn = "setErrorTypeIfNull" ->
             stepSetErrorTypeIfNull(shared, run, top)
        [] top.fn = "parseLines" -> local(stepParseLines(shared, run, top))
        [] top.fn = "parseExpressionOrEmpty" ->
             local(stepParseExpressionOrEmpty(shared, run, top))
        [] top.fn = "parseExpression" ->
             local(stepParseExpression(shared, run, top))
        [] top.fn = "parseExpressionList" ->
             local(stepParseExpressionList(shared, run, top))
        [] top.fn = "parseTerm" -> local(stepParseTerm(shared, run, top))

\* The run moved up to its next read or write of an error annotation: the
\* steps before it read token types only, which no run writes, so their
\* order among the runs does not matter.
RECURSIVE upToShared(_, _)
upToShared(shared, run) ==
  IF run.stack = <<>> \/ touchesShared(run) THEN run
  ELSE upToShared(shared, stepOfRun(shared, run).run)

\* ---------------------------------------------------- document builder

RECURSIVE sumWidths(_)
sumWidths(nodes) ==
  IF nodes = <<>> THEN 0 ELSE nodes[1].width + sumWidths(Tail(nodes))

\* new FormatNode(type, {nodes, text}): the width is computed on construction.
FormatNode(type, nodes, text) ==
  [type |-> type,
   nodes |-> nodes,
   text |-> text,
   width |->
     CASE type \in {"NODES", "GROUP", "INDENT"} -> sumWidths(nodes)
       [] type = "TEXT" -> Len(text)
       [] type = "SPACE_OR_LINE" -> 1
       [] type = "LINE" -> 0]

makeNodes(nodes) == FormatNode("NODES", nodes, <<>>)
makeGroup(nodes) == FormatNode("GROUP", nodes, <<>>)
makeIndent(nodes) == FormatNode("INDENT", nodes, <<>>)
makeText(text) == FormatNode("TEXT", <<>>, text)
\* Faulty variant of makeTokenText: the token's text is emitted twice.
makeTokenTextTwice(token) == makeText(token.content \o token.content)

makeTokenText(token) == makeText(token.content)
\* Faulty variant of makeSpaceOrLine: the node counts no column.
makeSpaceOrLineNoWidth ==
  [type |-> "SPACE_OR_LINE", nodes |-> <<>>, text |-> <<>>, width |-> 0]

makeSpaceOrLine == FormatNode("SPACE_OR_LINE", <<>>, <<>>)
makeLine == FormatNode("LINE", <<>>, <<>>)

RECURSIVE buildExpression(_, _)
RECURSIVE buildOperations(_, _, _)
RECURSIVE buildExpressionList(_, _)
RECURSIVE buildCommas(_, _, _)
RECURSIVE buildRows(_, _, _)
RECURSIVE buildTerm(_, _)

\* operatorTokens.flatMap(...) of buildExpression, from operator i (0-based).
buildOperations(tokens, expression, i) ==
  IF i >= Len(expression.operatorTokens) THEN <<>>
  ELSE <<makeText(<<" ">>),
         makeTokenText(tokens[expression.operatorTokens[i + 1] + 1]),
         makeSpaceOrLine,
         buildTerm(tokens, Tail(expression.terms)[i + 1])>>
         \o buildOperations(tokens, expression, i + 1)

buildExpression(tokens, expression) ==
  makeGroup(<<buildTerm(tokens, expression.terms[1])>>
              \o buildOperations(tokens, expression, 0))

\* Faulty variant of buildCommas: no SpaceOrLine after a comma.
RECURSIVE buildCommasTouching(_, _, _)
buildCommasTouching(tokens, expressionList, i) ==
  IF i >= Len(expressionList.commaTokens) THEN <<>>
  ELSE
    LET expr == expressionList.expressions[i + 2]
    IN  <<makeTokenText(tokens[expressionList.commaTokens[i + 1] + 1])>>
          \o (IF expr # NULL THEN <<buildExpression(tokens, expr)>> ELSE <<>>)
          \o buildCommasTouching(tokens, expressionList, i + 1)

\* Faulty variant of the loop of buildExpressionList: a SpaceOrLine follows
\* every comma, also one before an elided expression.
RECURSIVE buildCommasAlwaysBreak(_, _, _)
buildCommasAlwaysBreak(tokens, expressionList, i) ==
  IF i >= Len(expressionList.commaTokens) THEN <<>>
  ELSE
    LET expr == expressionList.expressions[i + 2]
    IN  <<makeTokenText(tokens[expressionList.commaTokens[i + 1] + 1]),
          makeSpaceOrLine>>
          \o (IF expr # NULL THEN <<buildExpression(tokens, expr)>> ELSE <<>>)
          \o buildCommasAlwaysBreak(tokens, expressionList, i + 1)

\* The for loop of buildExpressionList, from comma i (0-based).
buildCommas(tokens, expressionList, i) ==
  IF i >= Len(expressionList.commaTokens) THEN <<>>
  ELSE
    LET expr == expressionList.expressions[i + 2]
    IN  <<makeTokenText(tokens[expressionList.commaTokens[i + 1] + 1])>>
          \o (IF expr # NULL
                THEN <<makeSpaceOrLine, buildExpression(tokens, expr)>>
                ELSE <<>>)
          \o buildCommas(tokens, expressionList, i + 1)

buildExpressionList(tokens, expressionList) ==
  IF Len(expressionList.expressions) = 0 THEN makeText(<<>>)
  ELSE makeGroup(
         (IF expressionList.expressions[1] # NULL
            THEN <<buildExpression(tokens, expressionList.expressions[1])>>
            ELSE <<>>)
           \o buildCommas(tokens, expressionList, 0))

\* The for loop of the array-literal case of buildTerm, from semicolon i.
buildRows(tokens, arrayLiteral, i) ==
  IF i >= Len(arrayLiteral.semicolonTokens) THEN <<>>
  ELSE
    LET row == arrayLiteral.rows[i + 2]
    IN  <<makeTokenText(tokens[arrayLiteral.semicolonTokens[i + 1] + 1])>>
          \o (IF Len(row.expressions) > 0
                THEN <<makeSpaceOrLine, buildExpressionList(tokens, row)>>
                ELSE <<>>)
          \o buildRows(tokens, arrayLiteral, i + 1)

\* Faulty variant of closingText: a missing closing delimiter is rendered as
\* a placeholder.
closingTextPlaceholder(tokens, rightToken) ==
  IF rightToken # <<>> THEN <<makeTokenText(tokens[rightToken[1] + 1])>>
  ELSE <<makeText(<<")">>)>>

\* The closing delimiter's text when the token is present.
closingText(tokens, rightToken) ==
  IF rightToken # <<>> THEN <<makeTokenText(tokens[rightToken[1] + 1])>>
  ELSE <<>>

buildTerm(tokens, term) ==
  CASE term.type = "LITERAL" ->
         makeNodes(<<makeTokenText(tokens[term.literal + 1])>>)
    [] term.type = "UNARY_OP" ->
         makeNodes(<<makeTokenText(tokens[term.unaryOp.operatorToken + 1]),
                     buildTerm(tokens, term.unaryOp.operand)>>)
    [] term.type = "ARRAY_LITERAL" ->
         LET a == term.arrayLiteral
         IN  makeGroup(
               <<makeTokenText(tokens[a.leftBracketToken + 1])>>
                 \o (IF Len(a.rows) > 0
                       THEN <<makeLine,
                              makeIndent(
                                (IF Len(a.rows[1].expressions) > 0
                                   THEN <<buildExpressionList(tokens, a.rows[1])>>
                                   ELSE <<>>)
                                  \o buildRows(tokens, a, 0)),
                              makeLine>>
                       ELSE <<>>)
                 \o closingText(tokens, a.rightBracketToken))
    [] term.type = "CALL" ->
         LET c == term.call
         IN  makeGroup(
               <<makeTokenText(tokens[c.functionToken + 1]),
                 makeTokenText(tokens[c.leftParenToken + 1])>>
                 \o (IF Len(c.args.expressions) > 0
                       THEN <<makeLine,
                              makeIndent(<<buildExpressionList(tokens, c.args)>>),
                              makeLine>>
                       ELSE <<>>)
                 \o closingText(tokens, c.rightParenToken))
    [] term.type = "PARENTHESIZED" ->
         LET q == term.parenthesized
         IN  makeGroup(
               <<makeTokenText(tokens[q.leftParenToken + 1]),
                 makeLine,
                 makeIndent(<<buildExpression(tokens, q.expression)>>),
                 makeLine>>
                 \o closingText(tokens, q.rightParenToken))

buildFormatNode(parseResult) ==
  IF parseResult.expression = NULL THEN makeText(<<>>)
  ELSE buildExpression(parseResult.tokens, parseResult.expression)

\* ------------------------------------------------------------ renderer
\* formatNode recurses over the document; the model keeps the pending calls
\* on an explicit stack of frames [node, wrapType, dedent], the first frame
\* being the next call. A dedent frame is the code after the children of an
\* INDENT node that was indented.

RECURSIVE repeat(_, _)
repeat(text, count) ==
  IF count <= 0 THEN <<>> ELSE text \o repeat(text, count - 1)

\* Faulty variant of insertText: the text is written and the column is not
\* advanced.
insertTextUntracked(state, text) ==
  IF Len(text) = 0 THEN state
  ELSE [state EXCEPT
          !.linesBuffer[Len(state.linesBuffer)] = Append(@, text)]

insertText(state, text) ==
  IF Len(text) = 0 THEN state
  ELSE [state EXCEPT
          !.linesBuffer[Len(state.linesBuffer)] = Append(@, text),
          !.currLineWidth = @ + Len(text)]

\* Faulty variant of insertLine: the new line starts without indentation.
insertLineNoIndent(state) ==
  [state EXCEPT
     !.linesBuffer = Append(@, << <<>> >>),
     !.currLineWidth = 0]

insertLine(state) ==
  LET newLineTab == repeat(state.TAB, state.indentLevel)
  IN  [state EXCEPT
         !.linesBuffer = Append(@, <<newLineTab>>),
         !.currLineWidth = Len(newLineTab)]

frame(node, wrapType) == [node |-> node, wrapType |-> wrapType, dedent |-> FALSE]

dedentFrame == [node |-> makeLine, wrapType |-> "ENABLE", dedent |-> TRUE]

childFrames(node, wrapType) ==
  [i \in DOMAIN node.nodes |-> frame(node.nodes[i], wrapType)]

\* Faulty variant of groupWrapType: a group one column too wide still counts
\* as fitting.
groupWrapTypeOffByOne(state, node) ==
  IF state.currLineWidth + node.width > state.LINE_WIDTH + 1
    THEN "ENABLE"
    ELSE "DETECT"

\* Faulty variant of groupWrapType: a group that ends exactly at the line
\* width counts as not fitting.
groupWrapTypeStrict(state, node) ==
  IF state.currLineWidth + node.width >= state.LINE_WIDTH
    THEN "ENABLE"
    ELSE "DETECT"

\* The wrap type a GROUP hands to its children.
groupWrapType(state, node) ==
  IF state.currLineWidth + node.width > state.LINE_WIDTH
    THEN "ENABLE"
    ELSE "DETECT"

\* One call of formatNode up to its calls on the children: state is the
\* FormatState with the pending frames in state.stack.
formatNode(state, node, wrapType) ==
  CASE node.type = "GROUP" ->
         [state EXCEPT
            !.stack = childFrames(node, groupWrapType(state, node)) \o @]
    [] node.type = "NODES" ->
         [state EXCEPT !.stack = childFrames(node, wrapType) \o @]
    [] node.type = "INDENT" ->
         IF wrapType = "ENABLE"
           THEN [insertText([state EXCEPT !.indentLevel = @ + 1], state.TAB)
                   EXCEPT !.stack =
                     childFrames(node, wrapType) \o <<dedentFrame>> \o @]
           ELSE [state EXCEPT !.stack = childFrames(node, wrapType) \o @]
    [] node.type = "TEXT" -> insertText(state, node.text)
    [] node.type = "SPACE_OR_LINE" ->
         IF wrapType = "ENABLE" THEN insertLine(state)
         ELSE insertText(state, <<SPACE>>)
    [] node.type = "LINE" ->
         IF wrapType = "ENABLE" THEN insertLine(state) ELSE state

\* Faulty variant of formatStep: the end of an Indent does not restore the
\* indent level.
formatStepNoDedent(state) ==
  LET top == Head(state.stack)
      rest == [state EXCEPT !.stack = Tail(@)]
  IN  IF top.dedent
        THEN rest
        ELSE formatNode(rest, top.node, top.wrapType)

\* The next pending call.
formatStep(state) ==
  LET top == Head(state.stack)
      rest == [state EXCEPT !.stack = Tail(@)]
  IN  IF top.dedent
        THEN [rest EXCEPT !.indentLevel = @ - 1]
        ELSE formatNode(rest, top.node, top.wrapType)

\* The state formatLines starts from.
formatState(parseResult, userPreferences) ==
  [LINE_WIDTH |-> userPreferences.lineWidth,
   TAB |-> repeat(<<SPACE>>, userPreferences.tabSpaces),
   linesBuffer |-> << <<>> >>,
   indentLevel |-> 0,
   currLineWidth |-> 1,
   stack |-> <<frame(buildFormatNode(parseResult), "DETECT")>>]

RECURSIVE join(_)
join(fragments) ==
  IF fragments = <<>> THEN <<>> ELSE fragments[1] \o join(Tail(fragments))

\* state.linesBuffer.map((line) => line.join(""))
joinLines(state) ==
  [i \in DOMAIN state.linesBuffer |-> join(state.linesBuffer[i])]

RECURSIVE runFormat(_)
runFormat(state) ==
  IF state.stack = <<>> THEN state ELSE runFormat(formatStep(state))

formatLines(parseResult, userPreferences) ==
  joinLines(runFormat(formatState(parseResult, userPreferences)))

\* ------------------------------------------------------ the editor page
\* The page keeps the text; every change of the text is followed by a render
\* that tokenizes and parses it (parseLines), and the format key binding
\* replaces the text by formatLines of the parse result when it can be
\* formatted. The model follows one text through entering it, parsing it,
\* formatting it and parsing and formatting the result again.

\* Bounds of the model.
MaxLen == 2
MaxTabSpaces == 2
MaxLineWidth == 6
MaxReformats == 1

\* DEFAULT_USER_PREFERENCES
DefaultTabSpaces == 2
DefaultLineWidth == 80

DEFAULT_USER_PREFERENCES ==
  [tabSpaces |-> DefaultTabSpaces, lineWidth |-> DefaultLineWidth]

\* The characters of the enumerated inputs.
Alphabet == {"a", "1", "+", "-", "(", ")", "{", "}", ",", ";", " ", "\""}

RECURSIVE Strings(_)
Strings(n) ==
  IF n = 0 THEN {<<>>}
  ELSE LET shorter == Strings(n - 1)
       IN  shorter \cup {Append(s, c) : s \in shorter, c \in Alphabet}

\* Longer inputs: nested calls and arrays, ranges, strings, quoted names,
\* #N/A, two-character operators, tabs, several lines.
Scenarios ==
  {<< <<"S", "U", "M", "(", "1", ",", "2", ",", "3", ")">> >>,
   << <<"A", "1", "+", "B", "2">> >>,
   << <<"\"", "a", "b", "c">> >>,
   << <<"{", "1", ",", "2", ";", "3", ",", "4", "}">> >>,
   << <<"f", "o", "o", "(">> >>,
   << <<"f", "(", "{", "(", "1">> >>,
   << <<"#", "N", "/">>, <<" ", " ", " ", "A">> >>,
   << <<"1", " ", "'", "a", " ", "b">>, <<"'", "c">> >>,
   << <<"-", "(", "-", "1", ")", "+", "-", "\"", "a", "\"">> >>,
   << <<"a", "a", " ", "+", " ", "b">> >>,
   << <<"f", "(", "a", "a", "a", "a", ",", "b", ")">> >>,
   << <<"#", "N", "/", "A">> >>,
   << <<"#", "N", " ", "/", " ", "A">> >>,
   << <<"#", "n", "/", "a", " ", "#", "N", " ", "/", "A">> >>,
   << <<"1", "<", "=", "2", "<", ">", "a">> >>,
   << <<"'", "S", " ", "1", "'", "!", "A", "1", ":", "B", "2">> >>,
   << <<"-", "f", "(", "1", ")", "+", "(", "-", "2", ")">> >>,
   << <<"I", "F", "(", "a", ">", "1", ",", "{", "1", ";", "2", "}", ",", "\"", "x", " ", "y", "\"", ")">> >>,
   << <<"S", "U", "M", "(">>, <<" ", " ", "1", ",">>, <<" ", " ", "2">>, <<")">> >>,
   << <<"1", "\t", "+", "\t", "2">> >>,
   << <<"\"", "a", "\"", "\"", "b", "\"", "&", "c">> >>,
   << <<"f", "(", ",", "1", ",", ")">> >>,
   << <<"+", "{", "1", "}">> >>,
   << <<"(", "(", "1", ")">> >>,
   << <<"{", "1", ";", "{", "2">> >>,
   << <<"'", "a", "b", "c">> >>,
   << <<"\"", "a", "\"", " ", "\"", "b", "\"">> >>,
   << <<"\"", "a", "b">>, <<"1">> >>,
   << <<"f", "(", "g", "(", "1", ",", "2", ")", ",", "h", "(", "3", ")", ")">> >>,
   << <<"f", "(", "a", ".", "b", ")">> >>,
   << <<"#", "n", "/", "A", "+", "T", "R", "U", "E">> >>,
   << <<"1", " ", "+", " ", "+", "{", "1", "}">> >>,
   << <<"(", "1", "+", "2", ")", "*", "3">> >>,
   << <<"f", "(", "+", "{", "1", "}">> >>,
   << <<"f", "(", "a", ".", "b">> >>,
   << <<"{", "1", ",", "(", "2", ";", "+">> >>,
   << <<"f", "(", "1", "+", "-", "{">> >>}

Inputs == {<<s>> : s \in Strings(MaxLen)} \cup Scenarios

VARIABLES lines, tokens, parseResult, userPreferences, state, output, pc, pass,
          runs

vars ==
  <<lines, tokens, parseResult, userPreferences, state, output, pc, pass, runs>>

Init ==
  /\ lines = << <<>> >>
  /\ tokens = parseTokens(lines)
  /\ parseResult = parseTokenArray(tokens)
  /\ userPreferences = DEFAULT_USER_PREFERENCES
  /\ state = formatState(parseResult, userPreferences)
  /\ output = << <<>> >>
  /\ pc = "idle"
  /\ pass = 0
  /\ runs = <<>>

\* handleChange: the text area's new value replaces the text.
HandleChange(newLines) ==
  /\ pc = "idle"
  /\ lines' = newLines
  /\ pc' = "changed"
  /\ UNCHANGED <<tokens, parseResult, userPreferences, state, output, pass, runs>>

\* The render after a change, first half: parseLines tokenizes the lines.
ParseTokens ==
  /\ pc = "changed"
  /\ tokens' = parseTokens(lines)
  /\ pc' = "tokens"
  /\ UNCHANGED <<lines, parseResult, userPreferences, state, output, pass, runs>>

\* The render after a change, second half: parseLines parses the tokens.
ParseLines ==
  /\ pc = "tokens"
  /\ parseResult' = parseTokenArray(tokens)
  /\ pc' = "parsed"
  /\ UNCHANGED <<lines, tokens, userPreferences, state, output, pass, runs>>

\* The preferences pane stores new formatter options.
SetUserPreferences(tabSpaces, lineWidth) ==
  /\ pc = "parsed"
  /\ pass = 0
  /\ userPreferences = DEFAULT_USER_PREFERENCES
  /\ userPreferences' = [tabSpaces |-> tabSpaces, lineWidth |-> lineWidth]
  /\ UNCHANGED <<lines, tokens, parseResult, state, output, pc, pass, runs>>

\* Faulty variant of FormatLines: the format key starts formatLines whatever
\* the parse result.
FormatLinesUnguarded ==
  /\ pc = "parsed"
  /\ state' = formatState(parseResult, userPreferences)
  /\ pc' = "formatting"
  /\ UNCHANGED <<lines, tokens, parseResult, userPreferences, output, pass, runs>>

\* handleKeyDown with a format key binding: formatLines starts when the parse
\* result can be formatted.
FormatLines ==
  /\ pc = "parsed"
  /\ parseResult.canFormatExpression
  /\ state' = formatState(parseResult, userPreferences)
  /\ pc' = "formatting"
  /\ UNCHANGED <<lines, tokens, parseResult, userPreferences, output, pass, runs>>

\* handleKeyDown with a format key binding when the parse result cannot be
\* formatted: the key press is consumed and the text stays as it is.
FormatKeyIgnored ==
  /\ pc = "parsed"
  /\ ~parseResult.canFormatExpression
  /\ pc' = "ignored"
  /\ UNCHANGED <<lines, tokens, parseResult, userPreferences, state, output,
                 pass, runs>>

\* One call of formatNode.
FormatNodeStep ==
  /\ pc = "formatting"
  /\ state.stack # <<>>
  /\ state' = formatStep(state)
  /\ UNCHANGED <<lines, tokens, parseResult, userPreferences, output, pc, pass, runs>>

\* formatLines returns the joined lines.
FormatReturn ==
  /\ pc = "formatting"
  /\ state.stack = <<>>
  /\ output' = joinLines(state)
  /\ pc' = "formatted"
  /\ UNCHANGED <<lines, tokens, parseResult, userPreferences, state, pass, runs>>

\* setLines(formatLines(parseResult)): the formatted lines become the text.
SetLines ==
  /\ pc = "formatted"
  /\ pass < MaxReformats
  /\ lines' = output
  /\ pass' = pass + 1
  /\ pc' = "changed"
  /\ UNCHANGED <<tokens, parseResult, userPreferences, state, output, runs>>

Next ==
  \/ \E newLines \in Inputs : HandleChange(newLines)
  \/ ParseTokens
  \/ ParseLines
  \/ \E tabSpaces \in 1..MaxTabSpaces, lineWidth \in 1..MaxLineWidth :
       SetUserPreferences(tabSpaces, lineWidth)
  \/ FormatLines
  \/ FormatKeyIgnored
  \/ FormatNodeStep
  \/ FormatReturn
  \/ SetLines

Spec == Init /\ [][Next]_vars

\* ------------------------------------------- two runs over one token array
\*
\* parseLines' parser part called twice on the same token array, the two
\* calls interleaved at their reads and writes of the tokens' errorType.
\* tokens is the array the runs share, parseResult what one run alone makes
\* of it.

\* Bound of the texts the two runs parse.
MaxRunLen == 2

RunInputs == {<<s>> : s \in Strings(MaxRunLen)} \cup Scenarios

InitRuns ==
  /\ lines \in RunInputs
  /\ tokens = parseTokens(lines)
  /\ parseResult = parseTokenArray(tokens)
  /\ userPreferences = DEFAULT_USER_PREFERENCES
  /\ state = formatState(parseResult, userPreferences)
  /\ output = << <<>> >>
  /\ pc = "runs"
  /\ pass = 0
  /\ runs = <<upToShared(tokens, startOfRun), upToShared(tokens, startOfRun)>>

\* Run r does its next read or write of an error annotation, and what
\* follows it up to the one after.
RunStep(r) ==
  LET apply(after) ==
        /\ tokens' = after.shared
        /\ runs' = [runs EXCEPT ![r] = upToShared(after.shared, after.run)]
  IN  /\ pc = "runs"
      /\ runs[r].stack # <<>>
      /\ apply(stepOfRun(tokens, runs[r]))
      /\ UNCHANGED <<lines, parseResult, userPreferences, state, output, pc,
                     pass>>

NextRuns == \E r \in 1..2 : RunStep(r)

SpecRuns == InitRuns /\ [][NextRuns]_vars

\* ------------------------------------------------------------ properties

\* C1: formatting is idempotent. The text of a second pass is the output of
\* the first pass (SetLines); it can be formatted again, and formatting it
\* with the same preferences returns exactly the same lines.
C1_Idempotent ==
  pass >= 1 =>
    /\ (pc = "parsed" => parseResult.canFormatExpression)
    /\ (pc = "formatted" => output = lines)

\* A second pass over a wrapped (several lines) output has finished.
C1_Witness ==
  /\ pc = "formatted"
  /\ pass = 1
  /\ Len(lines) > 1
  /\ output = lines
  /\ userPreferences # DEFAULT_USER_PREFERENCES

\* The columns line i of the output takes: the first line is counted with
\* the reserved leading column (currLineWidth starts at 1).
columns(out, i) == Len(out[i]) + (IF i = 1 THEN 1 ELSE 0)

\* content occurs in line as a contiguous run of characters.
occursIn(content, line) ==
  \E k \in 0..(Len(line) - Len(content)) :
    SubSeq(line, k + 1, k + Len(content)) = content

\* C2 as stated: no line of the output is wider than lineWidth, except a line
\* holding a token that is itself longer than lineWidth.
C2_WidthBound ==
  pc = "formatted" =>
    \A i \in DOMAIN output :
      \/ columns(output, i) <= userPreferences.lineWidth
      \/ \E k \in DOMAIN parseResult.tokens :
           /\ Len(parseResult.tokens[k].content) > userPreferences.lineWidth
           /\ occursIn(parseResult.tokens[k].content, output[i])

\* The formatNode call at the head of the stack emits text in DETECT mode.
emitsFlatText ==
  /\ pc = "formatting"
  /\ state.stack # <<>>
  /\ ~Head(state.stack).dedent
  /\ Head(state.stack).wrapType = "DETECT"
  /\ Head(state.stack).node.type \in {"TEXT", "SPACE_OR_LINE"}

\* C2, amended: the width bound holds for what is rendered flat. Text emitted
\* in DETECT mode (inside a group that passed the fit test) never extends
\* past lineWidth, and a formula whose document fits the first line is
\* rendered as one line within lineWidth. Text of a group that does not fit
\* is not bounded.
C2_FlatWithinWidth ==
  /\ [][emitsFlatText => state'.currLineWidth <= state'.LINE_WIDTH]_vars
  /\ [](pc = "formatted"
          /\ 1 + buildFormatNode(parseResult).width <= userPreferences.lineWidth
        => Len(output) = 1
           /\ columns(output, 1) <= userPreferences.lineWidth)

\* A formula of several tokens that fills the line width exactly was
\* rendered on one line.
C2_Witness ==
  /\ pc = "formatted"
  /\ Len(parseResult.tokens) >= 3
  /\ 1 + buildFormatNode(parseResult).width = userPreferences.lineWidth
  /\ Len(output) = 1
  /\ columns(output, 1) = userPreferences.lineWidth

\* The (type, content) pairs of a token list.
typeContent(tokenList) ==
  [i \in DOMAIN tokenList |->
     <<tokenList[i].type, tokenList[i].content>>]

\* C3: formatting is lossless on tokens. When the formatted output has been
\* tokenized (second pass), its tokens have the same (type, content) pairs,
\* in the same order, as the tokens of the text that was formatted, which
\* parseResult still holds.
C3_LosslessTokens ==
  pc = "tokens" /\ pass >= 1 =>
    typeContent(tokens) = typeContent(parseResult.tokens)

\* The output of a formula with a missing closing delimiter, rendered on
\* several lines, has been tokenized again.
C3_Witness ==
  /\ pc = "tokens"
  /\ pass = 1
  /\ Len(lines) > 1
  /\ \E k \in DOMAIN parseResult.tokens :
       parseResult.tokens[k].errorType
         \in {"UNCLOSED_FUNCTION_CALL", "UNCLOSED_ARRAY", "UNCLOSED_PARENTHESES"}
  /\ typeContent(tokens) = typeContent(parseResult.tokens)

\* The whitespace characters of the inputs.
Whitespace == {" ", "\t"}

\* Token k covers column col (0-based) of line lineNum (0-based).
covers(tokenList, k, lineNum, col) ==
  /\ tokenList[k].startPosition.lineNum = lineNum
  /\ tokenList[k].endPosition.lineNum = lineNum
  /\ tokenList[k].startPosition.colNum <= col
  /\ col <= tokenList[k].endPosition.colNum

\* The tokens partition the text of txt that is not in the set blank:
\* strictly increasing positions without overlap, contents equal to the
\* source text between the inclusive positions, every character outside
\* blank inside exactly one token, and a blank character inside a token only
\* after the quote character that opens a string or quoted name.
partitions(tokenList, txt, blank) ==
  /\ \A k \in DOMAIN tokenList :
       /\ tokenList[k].startPosition.lineNum = tokenList[k].endPosition.lineNum
       /\ tokenList[k].startPosition.lineNum + 1 \in DOMAIN txt
       /\ 0 <= tokenList[k].startPosition.colNum
       /\ tokenList[k].startPosition.colNum <= tokenList[k].endPosition.colNum
       /\ tokenList[k].endPosition.colNum
            < Len(txt[tokenList[k].startPosition.lineNum + 1])
       /\ tokenList[k].content =
            SubSeq(txt[tokenList[k].startPosition.lineNum + 1],
                   tokenList[k].startPosition.colNum + 1,
                   tokenList[k].endPosition.colNum + 1)
       /\ \A j \in DOMAIN tokenList[k].content :
            tokenList[k].content[j] \in blank =>
              \E q \in 1..(j - 1) :
                tokenList[k].content[q] \in {DOUBLE_QUOTE, SINGLE_QUOTE}
  /\ \A k \in 1..(Len(tokenList) - 1) :
       cmpPositions(tokenList[k].endPosition,
                    tokenList[k + 1].startPosition) < 0
  /\ \A l \in DOMAIN txt :
       \A col \in 0..(Len(txt[l]) - 1) :
         txt[l][col + 1] \notin blank =>
           Cardinality({k \in DOMAIN tokenList :
                          covers(tokenList, k, l - 1, col)}) = 1

\* C4 as stated: the tokens of the text partition its non-whitespace
\* characters, and no whitespace outside a string or quoted name is part of
\* a token.
C4_TokensPartition ==
  pc = "tokens" => partitions(tokens, lines, Whitespace)

\* What the tokenizer guarantees: the same partition with the space
\* character as the only whitespace (a tab is a token character).
C4_SpacePartition ==
  pc = "tokens" => partitions(tokens, lines, {SPACE})

\* Some token carries one of the given error types.
hasErrorType(tokenList, errorTypes) ==
  \E k \in DOMAIN tokenList : tokenList[k].errorType \in errorTypes

\* C5 as stated: canFormatExpression is false exactly when an unclosed
\* string or unclosed quoted name error is present.
C5_OnlyUnclosedText ==
  pc = "parsed" =>
    (~parseResult.canFormatExpression
       <=> hasErrorType(parseResult.tokens,
                        {"UNCLOSED_STRING", "UNCLOSED_QUOTES"}))

\* C5, amended: canFormatExpression is false exactly when an unclosed string
\* or unclosed quoted name error is present or the formula leaves tokens
\* unconsumed; an unexpected-token error therefore always makes it false,
\* the other structural errors never do when every token is consumed.
C5_UnclosedTextOrLeftover ==
  pc = "parsed" =>
    /\ ~parseResult.canFormatExpression
         <=> \/ hasErrorType(parseResult.tokens,
                             {"UNCLOSED_STRING", "UNCLOSED_QUOTES"})
             \/ parseExpressionOrEmpty(tokens, 0).end < Len(tokens)
    /\ hasErrorType(parseResult.tokens, {"UNEXPECTED_TOKEN"})
         => ~parseResult.canFormatExpression

\* A parse with an unexpected token and neither unclosed string nor unclosed
\* quoted name cannot be formatted.
C5_Witness ==
  /\ pc = "parsed"
  /\ ~parseResult.canFormatExpression
  /\ hasErrorType(parseResult.tokens, {"UNEXPECTED_TOKEN"})
  /\ ~hasErrorType(parseResult.tokens, {"UNCLOSED_STRING", "UNCLOSED_QUOTES"})

\* C6 as stated: an ERROR token of any lexical kind makes
\* canFormatExpression false.
C6_EveryLexicalErrorFatal ==
  pc = "parsed" =>
    ((\E k \in DOMAIN parseResult.tokens :
        parseResult.tokens[k].type = "parse_error")
       => ~parseResult.canFormatExpression)

\* C6, amended: an unclosed string or unclosed quoted name ERROR token always
\* makes canFormatExpression false; unknown-token ERROR tokens never do when
\* every token is consumed.
C6_UnclosedTextFatal ==
  pc = "parsed" =>
    /\ (\E k \in DOMAIN parseResult.tokens :
          /\ parseResult.tokens[k].type = "parse_error"
          /\ parseResult.tokens[k].errorType
               \in {"UNCLOSED_STRING", "UNCLOSED_QUOTES"})
         => ~parseResult.canFormatExpression
    /\ (/\ \A k \in DOMAIN parseResult.tokens :
             parseResult.tokens[k].type = "parse_error"
               => parseResult.tokens[k].errorType = "UNKNOWN_TOKEN"
        /\ parseExpressionOrEmpty(tokens, 0).end >= Len(tokens))
         => parseResult.canFormatExpression

\* A parse with an unknown-token ERROR token can be formatted.
C6_Witness ==
  /\ pc = "parsed"
  /\ parseResult.canFormatExpression
  /\ \E k \in DOMAIN parseResult.tokens :
       /\ parseResult.tokens[k].type = "parse_error"
       /\ parseResult.tokens[k].errorType = "UNKNOWN_TOKEN"

\* C7 as stated: a text that produces at least one token has a non-null
\* expression.
C7_ExpressionUnlessBlank ==
  pc = "parsed" =>
    (Len(parseResult.tokens) > 0 => parseResult.expression # NULL)

\* C8: hasError is true exactly when some token has type ERROR or carries an
\* error annotation, and errors lists exactly those tokens in token order.
C8_ErrorsAreErrorTokens ==
  pc = "parsed" =>
    LET bad == {k \in DOMAIN parseResult.tokens :
                  \/ parseResult.tokens[k].type = "parse_error"
                  \/ parseResult.tokens[k].errorType # "undefined"}
    IN  /\ parseResult.hasError <=> bad # {}
        /\ Len(parseResult.errors) = Cardinality(bad)
        /\ \A j \in DOMAIN parseResult.errors : parseResult.errors[j] + 1 \in bad
        /\ \A j \in 1..(Len(parseResult.errors) - 1) :
             parseResult.errors[j] < parseResult.errors[j + 1]

\* A parse whose errors hold an annotated token followed by an ERROR token.
C8_Witness ==
  /\ pc = "parsed"
  /\ parseResult.hasError
  /\ Len(parseResult.errors) >= 2
  /\ parseResult.tokens[parseResult.errors[1] + 1].type # "parse_error"
  /\ parseResult.tokens[parseResult.errors[2] + 1].type = "parse_error"

\* One iteration of the tokenizer's column loop from column col of line l
\* ends at a later column of the line, in every mode.
scanAdvances(l, col) ==
  \A inString, inQuotes \in BOOLEAN :
    LET next == scanChar(lines[l], l - 1,
                         [tokens |-> <<>>, buffer |-> <<>>,
                          inString |-> inString, inQuotes |-> inQuotes,
                          colNum |-> col]).colNum
    IN  col < next /\ next <= Len(lines[l])

\* The parser's productions from token i: a term or expression that matches
\* consumes at least one token, a list consumes none or more, and none
\* reads past the end or changes the number of tokens.
parseAdvances(i) ==
  /\ LET term == parseTerm(tokens, i)
     IN  /\ Len(term.tokens) = Len(tokens)
         /\ term.ok => i < term.end /\ term.end <= Len(tokens)
  /\ LET expression == parseExpression(tokens, i)
     IN  /\ Len(expression.tokens) = Len(tokens)
         /\ expression.ok => i < expression.end /\ expression.end <= Len(tokens)
  /\ LET list == parseExpressionList(tokens, i)
     IN  /\ Len(list.tokens) = Len(tokens)
         /\ list.ok
         /\ i <= list.end /\ list.end <= Len(tokens)
         /\ list.end > i \/ list.node.expressions = <<>>

\* C9: tokenizing and parsing never abort. Every iteration of the
\* tokenizer's column loop advances, every production of the parser consumes
\* at least one token or stops, from every token index of every text, and the
\* parse of a tokenized text is a ParseResult over the same tokens. Every
\* text is met in the state after the change that entered it, every token
\* array in the state after ParseTokens.
C9_ParserAdvances ==
  /\ pc \in {"idle", "changed"} =>
       \A l \in DOMAIN lines :
         \A col \in 0..(Len(lines[l]) - 1) : scanAdvances(l, col)
  /\ pc \in {"idle", "tokens"} =>
       \A i \in 0..Len(tokens) : parseAdvances(i)
  /\ pc = "parsed" =>
       /\ typeContent(parseResult.tokens) = typeContent(tokens)
       /\ parseResult.hasError \in BOOLEAN
       /\ parseResult.canFormatExpression \in BOOLEAN

\* A malformed text of several tokens (nothing closed, an operator without
\* operand) has been tokenized and parsed.
C9_Witness ==
  /\ pc = "parsed"
  /\ Len(tokens) >= 4
  /\ parseResult.expression # NULL
  /\ hasErrorType(parseResult.tokens, {"UNCLOSED_ARRAY"})
  /\ hasErrorType(parseResult.tokens, {"UNCLOSED_PARENTHESES"})
  /\ hasErrorType(parseResult.tokens, {"UNEXPECTED_TOKEN"})

\* The text SUM(1,2,3) under the default preferences (lineWidth 80).
SUM123 == << <<"S", "U", "M", "(", "1", ",", "2", ",", "3", ")">> >>

sumFormatted ==
  /\ pc = "formatted"
  /\ pass = 0
  /\ lines = SUM123
  /\ userPreferences.lineWidth = DefaultLineWidth

\* C10 as stated: SUM(1,2,3) with lineWidth 80 is returned as the single
\* line SUM(1,2,3).
C10_SumTouching ==
  sumFormatted => output = SUM123

\* C10, amended: SUM(1,2,3) with lineWidth 80 is returned as the single line
\* SUM(1, 2, 3), one space after each comma.
C10_SumSpaced ==
  sumFormatted =>
    output =
      << <<"S", "U", "M", "(", "1", ",", " ", "2", ",", " ", "3", ")">> >>

\* SUM(1,2,3) has been formatted with lineWidth 80 into one line.
C10_Witness ==
  sumFormatted /\ Len(output) = 1 /\ Len(output[1]) = Len(SUM123[1]) + 2

\* SUM(1,2,3) formatted with tab width 2 and line width 5.
sumNarrow ==
  /\ pc = "formatted"
  /\ pass = 0
  /\ lines = SUM123
  /\ userPreferences = [tabSpaces |-> 2, lineWidth |-> 5]

\* C11: SUM(1,2,3) with line width 5 and tab width 2 is returned as the five
\* lines SUM( / two spaces 1, / two spaces 2, / two spaces 3 / ).
C11_SumBroken ==
  sumNarrow =>
    output = << <<"S", "U", "M", "(">>,
                <<" ", " ", "1", ",">>,
                <<" ", " ", "2", ",">>,
                <<" ", " ", "3">>,
                <<")">> >>

\* SUM(1,2,3) has been formatted with line width 5 and tab width 2 into
\* more than one line.
C11_Witness ==
  sumNarrow /\ Len(output) = 5 /\ Len(state.linesBuffer) = 5

\* The text foo( has been parsed.
FOO == << <<"f", "o", "o", "(">> >>

fooParsed == pc = "parsed" /\ lines = FOO

\* The call term of a parse result whose expression is a single call.
onlyCall(result) ==
  /\ result.expression # NULL
  /\ Len(result.expression.terms) = 1
  /\ result.expression.terms[1].type = "CALL"
  /\ result.expression.terms[1].call.rightParenToken = <<>>
  /\ result.tokens[result.expression.terms[1].call.leftParenToken + 1]
       .errorType = "UNCLOSED_FUNCTION_CALL"

\* C12 as stated: foo( parses to a call without rightParenToken whose
\* leftParenToken is annotated as an unclosed function call and whose
\* args.expressions is the one-element array [null].
C12_FooArgsNull ==
  fooParsed =>
    /\ onlyCall(parseResult)
    /\ parseResult.expression.terms[1].call.args.expressions = <<NULL>>

\* C12, amended: foo( parses to a call without rightParenToken whose
\* leftParenToken is annotated as an unclosed function call and whose
\* args.expressions and args.commaTokens are both empty.
C12_FooArgsEmpty ==
  fooParsed =>
    /\ onlyCall(parseResult)
    /\ parseResult.expression.terms[1].call.args =
         [expressions |-> <<>>, commaTokens |-> <<>>]
    /\ parseResult.canFormatExpression

\* foo( has been parsed into a call whose left parenthesis is annotated.
C12_Witness ==
  fooParsed /\ onlyCall(parseResult) /\ Len(parseResult.errors) = 1

\* The states in which tokens and parseResult belong to the current text:
\* the initial state and the states after ParseLines, before formatting. The
\* states that differ from these in the stored preferences only hold the
\* same text, tokens and parse result.
afterParse ==
  /\ pc \in {"idle", "parsed"}
  /\ pass = 0 => userPreferences = DEFAULT_USER_PREFERENCES

\* The closing-delimiter field of an array literal, call or parenthesized
\* term; the empty sequence when the field is absent.
closingOf(term) ==
  CASE term.type = "ARRAY_LITERAL" -> term.arrayLiteral.rightBracketToken
    [] term.type = "CALL" -> term.call.rightParenToken
    [] term.type = "PARENTHESIZED" -> term.parenthesized.rightParenToken
    [] OTHER -> <<>>

\* No token of the given type follows token i of the array.
noneAfter(tokenList, i, type) ==
  \A k \in (i + 2)..Len(tokenList) : tokenList[k].type # type

\* The annotation of token i after a step that annotates it with errorType
\* unless it carries an error already.
annotated(tokenList, i, errorType) ==
  IF tokenList[i + 1].errorType = "undefined"
    THEN errorType
    ELSE tokenList[i + 1].errorType

\* Token i opens a call: a left parenthesis directly after an identifier.
callParen(tokenList, i) ==
  /\ i >= 1
  /\ tokenList[i + 1].type = "left_paren"
  /\ tokenList[i].type = "identifier"

bareParen(tokenList, i) ==
  tokenList[i + 1].type = "left_paren" /\ ~callParen(tokenList, i)

\* The term parsed at index start exists, has the given type, lacks its
\* closing delimiter, and the opening delimiter at index open carries the
\* given annotation unless it carried an error before.
unclosedTerm(tokenList, start, open, type, errorType) ==
  LET result == parseTerm(tokenList, start)
  IN  /\ result.ok
      /\ result.node.type = type
      /\ closingOf(result.node) = <<>>
      /\ result.tokens[open + 1].errorType =
           annotated(tokenList, open, errorType)

\* The term parsed at index start exists and has the given type; when no
\* closing token follows, its closing delimiter is absent; the opening
\* delimiter at index open is annotated exactly when the closing delimiter
\* is absent and the token carried no error before.
openedTerm(tokenList, start, open, type, closingType, errorType) ==
  LET result == parseTerm(tokenList, start)
  IN  /\ result.ok
      /\ result.node.type = type
      /\ noneAfter(tokenList, open, closingType) =>
           closingOf(result.node) = <<>>
      /\ result.tokens[open + 1].errorType =
           IF closingOf(result.node) = <<>>
             THEN annotated(tokenList, open, errorType)
             ELSE tokenList[open + 1].errorType

\* C13 as stated, for one token array: every left bracket, call parenthesis
\* and bare left parenthesis that no closing delimiter follows yields a term
\* without closing delimiter whose opening token is annotated as unclosed
\* unless it carries an error already.
everyUnclosedYieldsTerm(tokenList) ==
  \A i \in 0..(Len(tokenList) - 1) :
    /\ (/\ tokenList[i + 1].type = "left_bracket"
        /\ noneAfter(tokenList, i, "right_bracket"))
         => unclosedTerm(tokenList, i, i, "ARRAY_LITERAL",
                         "UNCLOSED_ARRAY")
    /\ (callParen(tokenList, i) /\ noneAfter(tokenList, i, "right_paren"))
         => unclosedTerm(tokenList, i - 1, i, "CALL",
                         "UNCLOSED_FUNCTION_CALL")
    /\ (bareParen(tokenList, i) /\ noneAfter(tokenList, i, "right_paren"))
         => unclosedTerm(tokenList, i, i, "PARENTHESIZED",
                         "UNCLOSED_PARENTHESES")

C13_EveryUnclosedYieldsTerm ==
  afterParse =>
    /\ everyUnclosedYieldsTerm(tokens)
    /\ everyUnclosedYieldsTerm(parseResult.tokens)

\* C13, amended, for one token array: a left bracket and a call parenthesis
\* always yield an ArrayLiteral or Call term, a bare left parenthesis yields
\* a Parenthesized term exactly when an expression can be parsed after it;
\* the term lacks its closing delimiter when no closing token follows, and
\* the opening token is then annotated as unclosed unless it carries an
\* error already. A bare left parenthesis without an expression after it
\* yields no term and is not annotated by parseTerm.
unclosedYieldsTerm(tokenList) ==
  \A i \in 0..(Len(tokenList) - 1) :
    /\ tokenList[i + 1].type = "left_bracket"
         => openedTerm(tokenList, i, i, "ARRAY_LITERAL",
                       "right_bracket", "UNCLOSED_ARRAY")
    /\ callParen(tokenList, i)
         => openedTerm(tokenList, i - 1, i, "CALL",
                       "right_paren", "UNCLOSED_FUNCTION_CALL")
    /\ (bareParen(tokenList, i) /\ parseExpression(tokenList, i + 1).ok)
         => openedTerm(tokenList, i, i, "PARENTHESIZED",
                       "right_paren", "UNCLOSED_PARENTHESES")
    /\ (bareParen(tokenList, i) /\ ~parseExpression(tokenList, i + 1).ok)
         => /\ ~parseTerm(tokenList, i).ok
            /\ parseTerm(tokenList, i).tokens[i + 1] = tokenList[i + 1]

C13_UnclosedYieldsTerm ==
  afterParse =>
    /\ unclosedYieldsTerm(tokens)
    /\ unclosedYieldsTerm(parseResult.tokens)

\* f({(1 has been parsed: a call, an array literal and a parenthesized term
\* are nested, none is closed, and each opening token carries its own
\* annotation.
C13_Witness ==
  /\ pc = "parsed"
  /\ lines = << <<"f", "(", "{", "(", "1">> >>
  /\ parseResult.canFormatExpression
  /\ [i \in 1..Len(parseResult.tokens) |-> parseResult.tokens[i].errorType] =
       <<"undefined", "UNCLOSED_FUNCTION_CALL", "UNCLOSED_ARRAY",
         "UNCLOSED_PARENTHESES", "undefined">>
  /\ unclosedTerm(parseResult.tokens, 0, 1, "CALL",
                  "UNCLOSED_FUNCTION_CALL")

\* The error types the parser annotates tokens with.
ParserErrorTypes ==
  {"UNCLOSED_ARRAY", "UNCLOSED_FUNCTION_CALL", "UNCLOSED_PARENTHESES",
   "INVALID_UNARY_OPERAND", "UNEXPECTED_TOKEN"}

\* Going from one token array to the other, a token that carries an error
\* is left as it is and any other token changes in its errorType only.
keepsErrors(before, after) ==
  /\ Len(after) = Len(before)
  /\ \A k \in 1..Len(before) :
       /\ before[k].errorType # "undefined" => after[k] = before[k]
       /\ [after[k] EXCEPT !.errorType = before[k].errorType] = before[k]

\* No annotation step and no production started at any index of the token
\* array, nor the whole parse, changes or clears an annotation the array
\* carries.
firstErrorWins(tokenList) ==
  /\ \A i \in 0..(Len(tokenList) - 1) :
       /\ \A errorType \in ParserErrorTypes :
            keepsErrors(tokenList,
                        setErrorTypeIfNull(tokenList, i, errorType))
       /\ keepsErrors(tokenList, parseTerm(tokenList, i).tokens)
       /\ keepsErrors(tokenList, parseExpression(tokenList, i).tokens)
       /\ keepsErrors(tokenList, parseExpressionList(tokenList, i).tokens)
  /\ keepsErrors(tokenList, parseTokenArray(tokenList).tokens)

\* C14: first error wins. A token that carries an error annotation keeps it
\* through every step of a parse, on a freshly tokenized array and on an
\* array a previous parse has annotated, and parsing the annotated array
\* again returns the same result.
C14_FirstErrorWins ==
  afterParse =>
    /\ firstErrorWins(tokens)
    /\ firstErrorWins(parseResult.tokens)
    /\ parseTokenArray(parseResult.tokens) = parseResult

\* +{1} has been parsed: the operator was annotated as having an invalid
\* operand, and the parse then stopped at the same token, where parseLines
\* reports an unexpected token.
C14_Witness ==
  /\ pc = "parsed"
  /\ lines = << <<"+", "{", "1", "}">> >>
  /\ parseResult.expression = NULL
  /\ ~parseResult.canFormatExpression
  /\ parseResult.tokens[1].errorType = "INVALID_UNARY_OPERAND"
  /\ parseResult.errors = <<0>>

\* The terms of a tree, at every depth.
RECURSIVE termsOfTerm(_)
RECURSIVE termsOfExpression(_)
RECURSIVE termsOfList(_)
termsOfExpression(expression) ==
  IF expression = NULL THEN {}
  ELSE UNION {termsOfTerm(expression.terms[k]) : k \in DOMAIN expression.terms}

termsOfList(list) ==
  UNION {termsOfExpression(list.expressions[k]) :
           k \in DOMAIN list.expressions}

termsOfTerm(term) ==
  {term} \cup
    CASE term.type = "LITERAL" -> {}
      [] term.type = "UNARY_OP" -> termsOfTerm(term.unaryOp.operand)
      [] term.type = "ARRAY_LITERAL" ->
           UNION {termsOfList(term.arrayLiteral.rows[k]) :
                    k \in DOMAIN term.arrayLiteral.rows}
      [] term.type = "CALL" -> termsOfList(term.call.args)
      [] term.type = "PARENTHESIZED" ->
           termsOfExpression(term.parenthesized.expression)

\* The operands the claim allows.
allowedOperand(tokenList, term) ==
  CASE term.type = "LITERAL" ->
         tokenList[term.literal + 1].type
           \in {"literal", "identifier", "number", "range"}
    [] term.type \in {"CALL", "PARENTHESIZED"} -> TRUE
    [] OTHER -> FALSE

\* A unary operator at any index of the token array followed by a term:
\* with an allowed operand it yields the UnaryOp of that operand; with any
\* other term it yields no term and the operator is annotated as having an
\* invalid operand unless it carries an error already.
unaryOperandChecked(tokenList) ==
  \A i \in 0..(Len(tokenList) - 2) :
    tokenList[i + 1].type \in UNARY_OPERATORS =>
      LET operand == parseTerm(tokenList, i + 1)
          result == parseTerm(tokenList, i)
      IN  /\ (operand.ok /\ allowedOperand(operand.tokens, operand.node))
               => /\ result.ok
                  /\ result.node =
                       [type |-> "UNARY_OP",
                        unaryOp |-> [operatorToken |-> i,
                                     operand |-> operand.node]]
          /\ (operand.ok /\ ~allowedOperand(operand.tokens, operand.node))
               => /\ ~result.ok
                  /\ result.tokens[i + 1].errorType =
                       annotated(tokenList, i, "INVALID_UNARY_OPERAND")

\* C15: in the tree of every parse result the operand of every UnaryOp is a
\* Literal of token type LITERAL, IDENTIFIER, NUMBER or RANGE, a Call or a
\* Parenthesized term; a unary operator followed by any other term yields no
\* term and is annotated as having an invalid operand.
C15_UnaryOperand ==
  afterParse =>
    /\ \A term \in termsOfExpression(parseResult.expression) :
         term.type = "UNARY_OP" =>
           allowedOperand(parseResult.tokens, term.unaryOp.operand)
    /\ unaryOperandChecked(tokens)

\* -(-1)+-"a" has been parsed: the tree holds a UnaryOp of a Parenthesized
\* term and a UnaryOp of a number, and the operator before the string is
\* annotated as having an invalid operand.
C15_Witness ==
  /\ pc = "parsed"
  /\ lines = << <<"-", "(", "-", "1", ")", "+", "-", "\"", "a", "\"">> >>
  /\ Cardinality({term \in termsOfExpression(parseResult.expression) :
                    term.type = "UNARY_OP"}) = 2
  /\ parseResult.tokens[7].errorType = "INVALID_UNARY_OPERAND"
  /\ parseResult.tokens[8].type = "string"

\* The expression lists of a tree, at every depth: the argument list of
\* every call and the rows of every array literal.
listsOfTerms(terms) ==
  UNION {CASE term.type = "CALL" -> {term.call.args}
           [] term.type = "ARRAY_LITERAL" ->
                {term.arrayLiteral.rows[k] :
                   k \in DOMAIN term.arrayLiteral.rows}
           [] OTHER -> {} : term \in terms}

max(a, b) == IF a >= b THEN a ELSE b

\* The separators of a sequence of items: one fewer than the items, each a
\* token of the given type, in increasing token order.
separates(tokenList, separators, items, type) ==
  /\ Len(separators) = max(Len(items) - 1, 0)
  /\ \A k \in DOMAIN separators : tokenList[separators[k] + 1].type = type
  /\ \A k \in 1..(Len(separators) - 1) : separators[k] < separators[k + 1]

\* C16: in the tree of every parse result every expression list has
\* max(expressions.length - 1, 0) comma tokens and is never the lone null
\* entry, and every array literal has max(rows.length - 1, 0) semicolon
\* tokens; {1,2;3,4} parses to an array literal of 2 rows of 2 expressions
\* with 1 semicolon.
C16_SeparatorCounts ==
  afterParse =>
    LET terms == termsOfExpression(parseResult.expression)
    IN  /\ \A list \in listsOfTerms(terms) :
             /\ separates(parseResult.tokens, list.commaTokens,
                          list.expressions, "comma")
             /\ list.expressions # <<NULL>>
        /\ \A term \in terms :
             term.type = "ARRAY_LITERAL" =>
               separates(parseResult.tokens,
                         term.arrayLiteral.semicolonTokens,
                         term.arrayLiteral.rows, "semicolon")
        /\ lines = << <<"{", "1", ",", "2", ";", "3", ",", "4", "}">> >> =>
             /\ Len(parseResult.expression.terms) = 1
             /\ parseResult.expression.terms[1].type = "ARRAY_LITERAL"
             /\ Len(parseResult.expression.terms[1].arrayLiteral.rows) = 2
             /\ \A k \in 1..2 :
                  Len(parseResult.expression.terms[1].arrayLiteral.rows[k]
                        .expressions) = 2
             /\ parseResult.expression.terms[1].arrayLiteral.semicolonTokens
                  = <<4>>

\* {1,2;3,4} has been parsed into an array literal with rows and a
\* semicolon token.
C16_Witness ==
  /\ pc = "parsed"
  /\ lines = << <<"{", "1", ",", "2", ";", "3", ",", "4", "}">> >>
  /\ parseResult.canFormatExpression
  /\ ~parseResult.hasError
  /\ Cardinality(listsOfTerms(termsOfExpression(parseResult.expression))) = 2

\* C17: the editor never formats an unformattable parse. The formatter runs
\* and has run only on a parse result with canFormatExpression = true; a
\* format key on any other parse result leaves the text unchanged; and the
\* text changes only by an edit or by becoming the formatter's output for a
\* formattable parse result.
C17_FormatsOnlyFormattable ==
  /\ [](pc \in {"formatting", "formatted"} => parseResult.canFormatExpression)
  /\ [](pc = "ignored" => ~parseResult.canFormatExpression)
  /\ [][(pc = "parsed" /\ pc' # "parsed") =>
          /\ lines' = lines
          /\ pc' = IF parseResult.canFormatExpression
                     THEN "formatting"
                     ELSE "ignored"]_vars
  /\ [][lines' # lines =>
          \/ pc = "idle"
          \/ /\ pc = "formatted"
             /\ parseResult.canFormatExpression
             /\ parseResult = parseLines(lines)
             /\ lines' = formatLines(parseResult, userPreferences)]_vars

\* A format key was pressed on a text whose parse result cannot be formatted
\* and has tokens, and the text is still the parsed text.
C17_Witness ==
  /\ pc = "ignored"
  /\ ~parseResult.canFormatExpression
  /\ parseResult.hasError
  /\ parseResult = parseLines(lines)

\* The pending call at the head of the stack renders a GROUP.
groupAtHead ==
  /\ pc = "formatting"
  /\ state.stack # <<>>
  /\ ~Head(state.stack).dedent
  /\ Head(state.stack).node.type = "GROUP"

\* C18: every group is fit-tested afresh. The call for a GROUP hands each
\* child, in order, the wrapped mode if currLineWidth + width > LINE_WIDTH
\* and the flat mode otherwise, whatever mode the call itself was given, and
\* writes nothing.
C18_GroupTestedAfresh ==
  [][groupAtHead =>
       LET top == Head(state.stack)
           children == top.node.nodes
           mode == IF state.currLineWidth + top.node.width > state.LINE_WIDTH
                     THEN "ENABLE"
                     ELSE "DETECT"
       IN  /\ Len(state'.stack) = Len(state.stack) - 1 + Len(children)
           /\ \A k \in 1..Len(children) :
                state'.stack[k] =
                  [node |-> children[k], wrapType |-> mode, dedent |-> FALSE]
           /\ \A k \in 2..Len(state.stack) :
                state'.stack[k - 1 + Len(children)] = state.stack[k]
           /\ state'.linesBuffer = state.linesBuffer
           /\ state'.currLineWidth = state.currLineWidth
           /\ state'.indentLevel = state.indentLevel]_vars

\* A group nested in a wrapped group is rendered flat: the pending call at
\* the head of the stack has the flat mode, a call behind it has the wrapped
\* mode, and a line break has been written.
C18_Witness ==
  /\ pc = "formatting"
  /\ state.stack # <<>>
  /\ Head(state.stack).wrapType = "DETECT"
  /\ \E k \in 2..Len(state.stack) :
       state.stack[k].wrapType = "ENABLE" /\ ~state.stack[k].dedent
  /\ Len(state.linesBuffer) > 1

\* The flat rendering of a node: its texts in order, one space for every
\* SpaceOrLine, nothing for a Line.
RECURSIVE flatText(_)
flatText(node) ==
  CASE node.type = "TEXT" -> node.text
    [] node.type = "SPACE_OR_LINE" -> <<SPACE>>
    [] node.type = "LINE" -> <<>>
    [] OTHER -> join([k \in DOMAIN node.nodes |-> flatText(node.nodes[k])])

\* The group at the head of the stack passes the fit test.
fittingGroupAtHead ==
  /\ groupAtHead
  /\ state.currLineWidth + Head(state.stack).node.width <= state.LINE_WIDTH

\* C19: a group that passes the fit test renders entirely on the current
\* line. Rendering the group's whole subtree adds no line and no
\* indentation, appends exactly the group's flat text to the current line,
\* and advances the column by the group's width, which is the length of that
\* flat text (Text its length, SpaceOrLine 1, Line 0, containers the sum).
C19_FittingGroupFlat ==
  fittingGroupAtHead =>
    LET top == Head(state.stack)
        last == Len(state.linesBuffer)
        after == runFormat([state EXCEPT !.stack = <<top>>])
    IN  /\ top.node.width = Len(flatText(top.node))
        /\ Len(after.linesBuffer) = last
        /\ \A k \in 1..(last - 1) :
             after.linesBuffer[k] = state.linesBuffer[k]
        /\ join(after.linesBuffer[last]) =
             join(state.linesBuffer[last]) \o flatText(top.node)
        /\ after.currLineWidth = state.currLineWidth + top.node.width
        /\ after.indentLevel = state.indentLevel

\* A fitting group with Line nodes and a non-empty Indent is about to be
\* rendered on an indented line after a line break: a call, array literal or
\* parenthesized term inside a wrapped construct.
C19_Witness ==
  /\ fittingGroupAtHead
  /\ Len(state.linesBuffer) > 1
  /\ state.indentLevel > 0
  /\ \E k \in DOMAIN Head(state.stack).node.nodes :
       /\ Head(state.stack).node.nodes[k].type = "INDENT"
       /\ Head(state.stack).node.nodes[k].width > 0

\* The Indent nodes whose end is still pending.
openIndents(stack) == Cardinality({k \in DOMAIN stack : stack[k].dedent})

\* The text of the line being written.
currentLine == join(state.linesBuffer[Len(state.linesBuffer)])

\* The indentation of the current indent level.
indentation == repeat(<<SPACE>>, state.indentLevel * userPreferences.tabSpaces)

count(indices) == Cardinality(indices)

\* The non-empty expression lists of the current parse result.
builtLists ==
  {list \in listsOfTerms(termsOfExpression(parseResult.expression)) :
     Len(list.expressions) > 0}

commaText(node) == node.type = "TEXT" /\ node.text = <<",">>

\* The children of the node built for a list hold every comma of the list,
\* in order, and one node for every expression that is not elided.
keepsCommas(list, children) ==
  /\ count({k \in DOMAIN children : commaText(children[k])}) =
       Len(list.commaTokens)
  /\ count({k \in DOMAIN children :
              children[k].type \notin {"TEXT", "SPACE_OR_LINE"}}) =
       count({k \in DOMAIN list.expressions : list.expressions[k] # NULL})
  /\ \A k \in DOMAIN children :
       children[k].type = "TEXT" => commaText(children[k])

\* C21 as stated: the node built for an expression list holds every comma,
\* no node for an elided expression, and a SpaceOrLine directly after every
\* comma, whether or not the expression after that comma is elided.
C21_BreakAfterEveryComma ==
  afterParse =>
    \A list \in builtLists :
      LET children == buildExpressionList(parseResult.tokens, list).nodes
      IN  /\ keepsCommas(list, children)
          /\ \A k \in DOMAIN children :
               commaText(children[k]) =>
                 /\ k < Len(children)
                 /\ children[k + 1].type = "SPACE_OR_LINE"

\* C21, amended: the node built for an expression list holds every comma
\* and no node for an elided expression; a SpaceOrLine is emitted exactly
\* between a comma and the expression after it when that expression is not
\* elided, and a comma before an elided expression is followed directly by
\* the next comma or by nothing.
C21_BreakBeforeExpression ==
  afterParse =>
    \A list \in builtLists :
      LET children == buildExpressionList(parseResult.tokens, list).nodes
      IN  /\ keepsCommas(list, children)
          /\ count({k \in DOMAIN children :
                      children[k].type = "SPACE_OR_LINE"}) =
               count({k \in 2..Len(list.expressions) :
                        list.expressions[k] # NULL})
          /\ \A k \in DOMAIN children :
               children[k].type = "SPACE_OR_LINE" =>
                 /\ k > 1
                 /\ commaText(children[k - 1])
                 /\ k < Len(children)
                 /\ children[k + 1].type \notin {"TEXT", "SPACE_OR_LINE"}

\* f(,1,) has been parsed: its argument list has two commas, an elided
\* first and last expression and one expression between them.
C21_Witness ==
  /\ pc = "parsed"
  /\ lines = << <<"f", "(", ",", "1", ",", ")">> >>
  /\ \E list \in builtLists :
       /\ Len(list.commaTokens) = 2
       /\ list.expressions[1] = NULL
       /\ list.expressions[2] # NULL
       /\ list.expressions[3] = NULL
       /\ Len(buildExpressionList(parseResult.tokens, list).nodes) = 4

\* The tokens of a line tokenized alone, given the line number lineNum.
aloneAt(line, lineNum) ==
  LET alone == parseTokens(<<line>>)
  IN  [k \in DOMAIN alone |->
         [alone[k] EXCEPT !.startPosition.lineNum = lineNum,
                          !.endPosition.lineNum = lineNum]]

\* The tokenizer's modes and buffer at the end of a line scanned alone.
endOfScan(line) ==
  scanLine(line, 0, [tokens |-> <<>>, buffer |-> <<>>, inString |-> FALSE,
                     inQuotes |-> FALSE, colNum |-> 0])

unclosedTypes == {"UNCLOSED_STRING", "UNCLOSED_QUOTES"}

\* A line that ends inside a string or quoted name gives, as its last token,
\* one ERROR token of the matching error type that starts at the opening
\* quote and covers the line up to its last column, and no other token of
\* the line is an unclosed text; any other line gives no such token.
unclosedAtEnd(line, lineTokens) ==
  LET st == endOfScan(line)
      n == Len(lineTokens)
  IN  IF st.inString \/ st.inQuotes
        THEN /\ n >= 1
             /\ lineTokens[n].type = "parse_error"
             /\ lineTokens[n].errorType =
                  IF st.inString THEN "UNCLOSED_STRING" ELSE "UNCLOSED_QUOTES"
             /\ lineTokens[n].content[1] =
                  IF st.inString THEN DOUBLE_QUOTE ELSE SINGLE_QUOTE
             /\ lineTokens[n].endPosition.colNum = Len(line) - 1
             /\ lineTokens[n].content =
                  SubSeq(line, lineTokens[n].startPosition.colNum + 1,
                         Len(line))
             /\ \A k \in 1..(n - 1) :
                  lineTokens[k].errorType \notin unclosedTypes
        ELSE \A k \in 1..n : lineTokens[k].errorType \notin unclosedTypes

\* C22: lines are tokenized independently. The tokens of the text are the
\* tokens of its lines, each tokenized alone and given its line number, one
\* line after the other; a line that ends inside a string or quoted name
\* gives exactly one ERROR token for the unterminated text, which ends at
\* the last column of the line.
C22_LinesIndependent ==
  afterParse =>
    /\ tokens = join([i \in DOMAIN lines |-> aloneAt(lines[i], i - 1)])
    /\ \A i \in DOMAIN lines :
         unclosedAtEnd(lines[i], aloneAt(lines[i], i - 1))

\* The two-line text 1 'a b / 'c has been parsed: each line ends inside a
\* quoted name and gives its own ERROR token.
C22_Witness ==
  /\ pc = "parsed"
  /\ lines = << <<"1", " ", "'", "a", " ", "b">>, <<"'", "c">> >>
  /\ Len(tokens) = 3
  /\ tokens[2].errorType = "UNCLOSED_QUOTES"
  /\ tokens[2].endPosition = [lineNum |-> 0, colNum |-> 5]
  /\ tokens[3].errorType = "UNCLOSED_QUOTES"
  /\ tokens[3].startPosition = [lineNum |-> 1, colNum |-> 0]
  /\ ~parseResult.canFormatExpression

\* Tokens k, k + 1 and k + 2 are #N, / and A in any case.
naPieces(tokenList, k) ==
  /\ k + 2 <= Len(tokenList)
  /\ toLowerCase(tokenList[k].content) = <<"#", "n">>
  /\ tokenList[k + 1].content = <<"/">>
  /\ toLowerCase(tokenList[k + 2].content) = <<"a">>

\* Tokens k to k + 2 are on one line with no character between them.
touching(tokenList, k) ==
  /\ tokenList[k].startPosition.lineNum = tokenList[k + 2].endPosition.lineNum
  /\ tokenList[k].startPosition.colNum + 3 = tokenList[k + 2].endPosition.colNum

\* The characters that end the buffer and become a token of their own.
symbolChar(c) ==
  OPERATORS_SINGLE(c) # "undefined" \/ PUNCTUATION(c) # "undefined"

\* The token holds the text of one buffer or one symbol: it is a symbol
\* token, or holds a quote, or holds no symbol character.
unmerged(token) ==
  \/ token.type \notin LiteralTokenTypes
  \/ \E j \in DOMAIN token.content :
       token.content[j] \in {DOUBLE_QUOTE, SINGLE_QUOTE}
  \/ \A j \in DOMAIN token.content : ~symbolChar(token.content[j])

\* Every token that is not the text of one buffer or symbol is #N/A in any
\* case, a LITERAL that spans the four columns of its text.
onlyNaMerged(tokenList, txt) ==
  \A k \in DOMAIN tokenList :
    ~unmerged(tokenList[k]) =>
      /\ toLowerCase(tokenList[k].content) = <<"#", "n", "/", "a">>
      /\ tokenList[k].type = "literal"
      /\ tokenList[k].errorType = "undefined"
      /\ tokenList[k].endPosition.colNum =
           tokenList[k].startPosition.colNum + 3
      /\ tokenList[k].content =
           SubSeq(txt[tokenList[k].startPosition.lineNum + 1],
                  tokenList[k].startPosition.colNum + 1,
                  tokenList[k].endPosition.colNum + 1)

\* C23 as stated: the tokens #N, / and A in a row are always replaced by
\* the one LITERAL #N/A, and nothing else is merged.
C23_NaAlwaysMerged ==
  afterParse =>
    /\ \A k \in DOMAIN tokens : ~naPieces(tokens, k)
    /\ onlyNaMerged(tokens, lines)

\* C23, amended: the tokens #N, / and A in a row are replaced by the one
\* LITERAL #N/A exactly when no character separates them on their line; when
\* a space separates them they stay three tokens; nothing else is merged.
C23_NaMergedWhenTouching ==
  afterParse =>
    /\ \A k \in DOMAIN tokens :
         naPieces(tokens, k) => ~touching(tokens, k)
    /\ onlyNaMerged(tokens, lines)

\* #n/a #N /A has been parsed: the first four characters are one LITERAL and
\* the spaced ones after it stay three tokens.
C23_Witness ==
  /\ pc = "parsed"
  /\ Len(tokens) = 4
  /\ tokens[1].type = "literal"
  /\ tokens[1].content = <<"#", "n", "/", "a">>
  /\ naPieces(tokens, 2)

\* The expression parsed at an index of the token array has one operator
\* fewer than terms, each operator token is an operator, its last token is
\* not an operator, and an operator directly behind it is followed by
\* nothing that parses as a term.
operatorHandedBack(tokenList, i) ==
  LET result == parseExpression(tokenList, i)
  IN  result.ok =>
        /\ Len(result.node.terms) >= 1
        /\ Len(result.node.operatorTokens) = Len(result.node.terms) - 1
        /\ \A k \in DOMAIN result.node.operatorTokens :
             /\ i < result.node.operatorTokens[k]
             /\ result.node.operatorTokens[k] < result.end - 1
             /\ tokenList[result.node.operatorTokens[k] + 1].type \in OPERATORS
        /\ i < result.end
        /\ result.end <= Len(tokenList)
        /\ tokenList[result.end].type \notin OPERATORS
        /\ (/\ result.end < Len(tokenList)
            /\ tokenList[result.end + 1].type \in OPERATORS)
             => ~parseTerm(result.tokens, result.end + 1).ok

\* The parse result of a token array: when the top-level formula leaves
\* tokens, the first of them carries the error it had or else the
\* unexpected-token error, and no other token differs from the array the
\* formula production returns.
firstLeftoverUnexpected(tokenList, result) ==
  LET formula == parseExpressionOrEmpty(tokenList, 0)
  IN  /\ result.expression = formula.node
      /\ \A k \in DOMAIN tokenList :
           result.tokens[k] =
             IF k = formula.end + 1
               THEN [formula.tokens[k] EXCEPT !.errorType =
                       annotated(formula.tokens, formula.end,
                                 "UNEXPECTED_TOKEN")]
               ELSE formula.tokens[k]

\* C24: a dangling operator is not consumed. Every expression, parsed at
\* any index, ends before an operator that nothing parseable follows and has
\* one operator fewer than terms; at the top level the first token left
\* over is annotated as unexpected unless it already carries an error.
C24_DanglingOperator ==
  afterParse =>
    /\ \A i \in 0..(Len(tokens) - 1) : operatorHandedBack(tokens, i)
    /\ firstLeftoverUnexpected(tokens, parseResult)

\* 1 + +{1} has been parsed: the expression is the single term 1, the first
\* operator is left over and annotated as unexpected, and the second carries
\* the invalid-operand error.
C24_Witness ==
  /\ pc = "parsed"
  /\ lines = << <<"1", " ", "+", " ", "+", "{", "1", "}">> >>
  /\ Len(parseResult.expression.terms) = 1
  /\ parseResult.expression.operatorTokens = <<>>
  /\ parseResult.tokens[2].errorType = "UNEXPECTED_TOKEN"
  /\ parseResult.tokens[3].errorType = "INVALID_UNARY_OPERAND"
  /\ ~parseResult.canFormatExpression

\* The second token array holds the tokens of the first in the same order
\* with the same type, content and positions; a token's error annotation is
\* the one it had, or one of the parser's where it had none.
onlyAnnotated(before, after) ==
  /\ Len(after) = Len(before)
  /\ \A k \in DOMAIN before :
       /\ DOMAIN after[k] = DOMAIN before[k]
       /\ after[k].type = before[k].type
       /\ after[k].content = before[k].content
       /\ after[k].startPosition = before[k].startPosition
       /\ after[k].endPosition = before[k].endPosition
       /\ \/ after[k].errorType = before[k].errorType
          \/ /\ before[k].errorType = "undefined"
             /\ after[k].errorType \in ParserErrorTypes

\* C25: parsing changes nothing in the token array except error
\* annotations. The tokens of the parse result, and the tokens every
\* production returns from any index, are the tokenizer's tokens in the same
\* order with unchanged type, content, startPosition and endPosition.
C25_OnlyAnnotations ==
  afterParse =>
    /\ tokens = parseTokens(lines)
    /\ onlyAnnotated(tokens, parseResult.tokens)
    /\ \A i \in 0..(Len(tokens) - 1) :
         /\ onlyAnnotated(tokens, parseTerm(tokens, i).tokens)
         /\ onlyAnnotated(tokens, parseExpression(tokens, i).tokens)
         /\ onlyAnnotated(tokens, parseExpressionList(tokens, i).tokens)

\* {1,(2;+ has been parsed: three of its seven tokens were annotated by the
\* parser and the others are as the tokenizer made them.
C25_Witness ==
  /\ pc = "parsed"
  /\ lines = << <<"{", "1", ",", "(", "2", ";", "+">> >>
  /\ Len(parseResult.tokens) = 7
  /\ Len(parseResult.errors) = 3
  /\ \A k \in DOMAIN tokens : tokens[k].errorType = "undefined"
  /\ parseResult.tokens[2] = tokens[2]

\* C26: renderer column tracking is exact. From the start of formatLines to
\* its return, currLineWidth is the number of characters of the last line of
\* the buffer, plus 1 while that line is the first line.
C26_ColumnExact ==
  pc \in {"formatting", "formatted"} =>
    state.currLineWidth =
      Len(currentLine) + (IF Len(state.linesBuffer) = 1 THEN 1 ELSE 0)

\* A group is about to be fit-tested in the middle of an indented line that
\* a line break started.
C26_Witness ==
  /\ groupAtHead
  /\ Len(state.linesBuffer) > 1
  /\ state.indentLevel > 0
  /\ state.currLineWidth > Len(indentation)
  /\ state.currLineWidth = Len(currentLine)

\* The expressions of a tree, at every depth: the top-level expression, the
\* expressions of every list that are not elided, and the expression of
\* every parenthesized term.
expressionsOf(expression) ==
  LET terms == termsOfExpression(expression)
  IN  (IF expression = NULL THEN {} ELSE {expression})
        \cup UNION {{list.expressions[k] : k \in DOMAIN list.expressions}
                      \ {NULL} : list \in listsOfTerms(terms)}
        \cup {term.parenthesized.expression :
                term \in {t \in terms : t.type = "PARENTHESIZED"}}

elements(sequence) == {sequence[k] : k \in DOMAIN sequence}

\* The token indices a term holds itself.
tokensOfTerm(term) ==
  CASE term.type = "LITERAL" -> {term.literal}
    [] term.type = "UNARY_OP" -> {term.unaryOp.operatorToken}
    [] term.type = "ARRAY_LITERAL" ->
         {term.arrayLiteral.leftBracketToken}
           \cup elements(term.arrayLiteral.semicolonTokens)
           \cup elements(term.arrayLiteral.rightBracketToken)
    [] term.type = "CALL" ->
         {term.call.functionToken, term.call.leftParenToken}
           \cup elements(term.call.rightParenToken)
    [] term.type = "PARENTHESIZED" ->
         {term.parenthesized.leftParenToken}
           \cup elements(term.parenthesized.rightParenToken)

\* The token indices a tree holds.
treeTokens(expression) ==
  LET terms == termsOfExpression(expression)
  IN  UNION {tokensOfTerm(term) : term \in terms}
        \cup UNION {elements(list.commaTokens) : list \in listsOfTerms(terms)}
        \cup UNION {elements(e.operatorTokens) : e \in expressionsOf(expression)}

\* C27: canFormatExpression = true implies the whole token stream was
\* consumed. When the top-level formula leaves a token, canFormatExpression
\* is false; when it is true the formula ends behind the last token and the
\* tree holds every token of the array.
C27_FormattableConsumesAll ==
  afterParse =>
    LET formula == parseExpressionOrEmpty(tokens, 0)
    IN  /\ formula.end < Len(tokens) => ~parseResult.canFormatExpression
        /\ parseResult.canFormatExpression =>
             /\ formula.end = Len(tokens)
             /\ treeTokens(parseResult.expression) = 0..(Len(tokens) - 1)

\* A text has been parsed into a tree that holds some of its tokens and not
\* the last one, no token is an unclosed text, and the parse result cannot
\* be formatted.
C27_Witness ==
  /\ pc = "parsed"
  /\ parseResult.expression # NULL
  /\ treeTokens(parseResult.expression) # {}
  /\ (Len(tokens) - 1) \notin treeTokens(parseResult.expression)
  /\ ~hasErrorType(parseResult.tokens, unclosedTypes)
  /\ ~parseResult.canFormatExpression

\* Both runs have returned.
bothDone == pc = "runs" /\ \A r \in 1..2 : runs[r].done

\* Run r has tested a token's errorType, found it undefined, and has not
\* yet assigned it.
aboutToWrite(r) ==
  /\ runs[r].stack # <<>>
  /\ Head(runs[r].stack).fn = "setErrorTypeIfNull"
  /\ Head(runs[r].stack).pc = "write"

\* The annotation run r is about to write is on a token the other run has
\* annotated since r tested it.
writesOverOther(r) ==
  /\ aboutToWrite(r)
  /\ tokens[Head(runs[r].stack).i + 1].errorType # "undefined"

\* C28: parsing is insensitive to existing annotations and to interleaving.
\* Whatever annotations the shared array holds, a parse of it yields the tree
\* of the single run; a run that has returned returns that tree; and when
\* both have returned every token has the annotation the single run gives
\* it.
C28_RunsAgree ==
  pc = "runs" =>
    /\ parseTokenArray(tokens).expression = parseResult.expression
    /\ \A r \in 1..2 :
         runs[r].done => runs[r].expression = parseResult.expression
    /\ bothDone => tokens = parseResult.tokens

\* Run 1 has returned the tree and every token has its final annotation,
\* while run 2, which tested a token before run 1 annotated it, is still
\* about to write that token's annotation.
C28_Witness ==
  /\ pc = "runs"
  /\ runs[1].done
  /\ runs[1].expression = parseResult.expression
  /\ writesOverOther(2)
  /\ tokens = parseResult.tokens
  /\ \E i \in 1..Len(tokens) : tokens[i].errorType # "undefined"
\* The parser's annotations of a term without closing delimiter.
UnclosedErrorTypes ==
  {"UNCLOSED_ARRAY", "UNCLOSED_FUNCTION_CALL", "UNCLOSED_PARENTHESES"}

\* The opening delimiter of an array literal, a call or a parenthesized
\* term, and the annotation it gets when the term is not closed.
opening(term) ==
  CASE term.type = "ARRAY_LITERAL" ->
         [token |-> term.arrayLiteral.leftBracketToken,
          errorType |-> "UNCLOSED_ARRAY"]
    [] term.type = "CALL" ->
         [token |-> term.call.leftParenToken,
          errorType |-> "UNCLOSED_FUNCTION_CALL"]
    [] term.type = "PARENTHESIZED" ->
         [token |-> term.parenthesized.leftParenToken,
          errorType |-> "UNCLOSED_PARENTHESES"]

\* Token i is the opening delimiter of one of the terms, which lacks its
\* closing delimiter and is of the kind the annotation names.
opensUnclosed(terms, i, errorType) ==
  \E term \in terms :
    /\ term.type \in {"ARRAY_LITERAL", "CALL", "PARENTHESIZED"}
    /\ closingOf(term) = <<>>
    /\ opening(term) = [token |-> i, errorType |-> errorType]

\* The tokens of the parse result annotated as unclosed.
unclosedAnnotated ==
  {i \in 0..(Len(parseResult.tokens) - 1) :
     parseResult.tokens[i + 1].errorType \in UnclosedErrorTypes}

inTree(i) ==
  opensUnclosed(termsOfExpression(parseResult.expression), i,
                parseResult.tokens[i + 1].errorType)

\* Token i opens an unclosed term of the operand of a unary operator that
\* parseTerm rejected: the operator is annotated as having an invalid
\* operand and is not part of the tree.
inRejectedOperand(i) ==
  \E j \in 0..(i - 1) :
    LET rejected(operand) ==
          /\ operand.ok
          /\ ~validUnaryOperand(parseResult.tokens, operand.node)
          /\ opensUnclosed(termsOfTerm(operand.node), i,
                           parseResult.tokens[i + 1].errorType)
    IN  /\ parseResult.tokens[j + 1].type \in UNARY_OPERATORS
        /\ parseResult.tokens[j + 1].errorType = "INVALID_UNARY_OPERAND"
        /\ j \notin treeTokens(parseResult.expression)
        /\ rejected(parseTerm(parseResult.tokens, j + 1))

\* C29 as stated: every token annotated as unclosed is the opening delimiter
\* of an unclosed term of the returned tree.
C29_AnnotationsInTree ==
  afterParse => \A i \in unclosedAnnotated : inTree(i)

\* C29, amended: every token annotated as unclosed is the opening delimiter
\* of an unclosed term that is in the returned tree or in the rejected
\* operand of a unary operator annotated as having an invalid operand; the
\* annotations of a rejected operand remain.
C29_AnnotationsInTreeOrRejected ==
  afterParse =>
    \A i \in unclosedAnnotated :
      /\ inTree(i) \/ inRejectedOperand(i)
      /\ ~(inTree(i) /\ inRejectedOperand(i))

\* f(1+-{ has been parsed: the call is in the tree and its parenthesis is
\* annotated as unclosed; the array literal was the operand of the rejected
\* minus sign, is not in the tree, and its bracket is still annotated.
C29_Witness ==
  /\ pc = "parsed"
  /\ lines = << <<"f", "(", "1", "+", "-", "{">> >>
  /\ unclosedAnnotated = {1, 5}
  /\ inTree(1)
  /\ ~inTree(5)
  /\ inRejectedOperand(5)
  /\ treeTokens(parseResult.expression) = {0, 1, 2}
\* --------------------------------------------------- the preferences pane
\*
\* The pane's handlers, each storing new preferences with
\* setUserPreferences; userPreferences is what the format key hands to
\* formatLines.

\* Bounds of the pane's inputs: the length of a text typed into the
\* line-width input, and how far the minus and plus buttons are followed
\* below zero and above the default.
MaxInputLen == 2
MaxPresses == 3

\* The value that is not a number; parseInt returns no negative number for
\* a single character.
NaN == -1

\* parseInt of a single character.
parseInt(char) ==
  CASE char = "0" -> 0 [] char = "1" -> 1 [] char = "2" -> 2
    [] char = "3" -> 3 [] char = "4" -> 4 [] char = "5" -> 5
    [] char = "6" -> 6 [] char = "7" -> 7 [] char = "8" -> 8
    [] char = "9" -> 9 [] OTHER -> NaN

isNaN(number) == number = NaN

\* getInts: the digits of the string read as one number, the default when
\* there is none.
getInts(str, defaultValue) ==
  LET RECURSIVE loop(_, _, _)
      loop(k, sawDigit, num) ==
        IF k > Len(str)
          THEN IF ~sawDigit THEN defaultValue ELSE num
        ELSE IF isNaN(parseInt(str[k])) THEN loop(k + 1, sawDigit, num)
        ELSE loop(k + 1, TRUE, num * 10 + parseInt(str[k]))
  IN  loop(1, FALSE, 0)

\* The values of the tab-spaces range input (min 1, max 8, step 1).
TabSpacesValues == {<<"1">>, <<"2">>, <<"3">>, <<"4">>,
                    <<"5">>, <<"6">>, <<"7">>, <<"8">>}

\* The texts typed into the line-width text input.
LineWidthChars == {"0", "1", "8", "-", "a"}

LineWidthValues == UNION {[1..n -> LineWidthChars] : n \in 0..MaxInputLen}

InitPreferences ==
  /\ lines = << <<>> >>
  /\ tokens = parseTokens(lines)
  /\ parseResult = parseTokenArray(tokens)
  /\ userPreferences = DEFAULT_USER_PREFERENCES
  /\ state = formatState(parseResult, userPreferences)
  /\ output = << <<>> >>
  /\ pc = "preferences"
  /\ pass = 0
  /\ runs = <<>>

\* handleTabSpacesChange
HandleTabSpacesChange(value) ==
  /\ pc = "preferences"
  /\ userPreferences' =
       [userPreferences EXCEPT !.tabSpaces = getInts(value, 2)]
  /\ UNCHANGED <<lines, tokens, parseResult, state, output, pc, pass, runs>>

\* handleLineWidthChange
HandleLineWidthChange(value) ==
  /\ pc = "preferences"
  /\ userPreferences' =
       [userPreferences EXCEPT !.lineWidth = getInts(value, 80)]
  /\ UNCHANGED <<lines, tokens, parseResult, state, output, pc, pass, runs>>

\* handleLineWidthDelta: the minus and the plus button.
HandleLineWidthDelta(delta) ==
  /\ pc = "preferences"
  /\ userPreferences.lineWidth + delta >= 0 - MaxPresses
  /\ userPreferences.lineWidth + delta <= DefaultLineWidth + MaxPresses
  /\ userPreferences' =
       [userPreferences EXCEPT !.lineWidth = @ + delta]
  /\ UNCHANGED <<lines, tokens, parseResult, state, output, pc, pass, runs>>

\* handleResetDefaults
HandleResetDefaults ==
  /\ pc = "preferences"
  /\ userPreferences' = DEFAULT_USER_PREFERENCES
  /\ UNCHANGED <<lines, tokens, parseResult, state, output, pc, pass, runs>>

NextPreferences ==
  \/ \E value \in TabSpacesValues : HandleTabSpacesChange(value)
  \/ \E value \in LineWidthValues : HandleLineWidthChange(value)
  \/ \E delta \in {-1, 1} : HandleLineWidthDelta(delta)
  \/ HandleResetDefaults

SpecPreferences == InitPreferences /\ [][NextPreferences]_vars

\* What formatLines makes of the stored preferences.
handedToFormatter == formatState(parseResult, userPreferences)

\* C30: after any sequence of preference-pane operations the stored
\* tabSpaces and lineWidth handed to the formatter are positive integers.
C30_OptionsPositive ==
  pc = "preferences" =>
    /\ userPreferences.tabSpaces \in Nat \ {0}
    /\ userPreferences.lineWidth \in Nat \ {0}
    /\ Len(handedToFormatter.TAB) > 0
    /\ handedToFormatter.LINE_WIDTH > 0
====
